---- MODULE Spec2Model ----
(***************************************************************************)
(* GBinding (gobject/gbinding.c): property bindings between GObject        *)
(* instances.  The model covers g_object_bind_property_full, the two       *)
(* notify handlers with the is_frozen guard, the default transform,        *)
(* weak_unbind and g_binding_finalize, together with the part of GObject   *)
(* they are driven by (property store, notify emission, weak references,   *)
(* reference counts).                                                       *)
(***************************************************************************)
EXTENDS Integers, Sequences, FiniteSets, TLC

\* ------------------------------------------------------------------ bounds
\* Integer properties range over 0..MaxVal.
MaxVal == 2
\* Number of GBinding instances that can ever be allocated.
MaxLinks == 3
\* Number of bindings alive at once where the application also connects
\* handlers of its own or destroys objects.
MaxPair == 2
\* Number of instances an application allocates that keeps one binding at
\* a time.
MaxSolo == 1
\* Upper limit on the handler activations of one notify dispatch.
MaxSteps == 12
\* At most MaxHandlers handlers are connected to the auth observer.
MaxHandlers == 3

\* ---------------------------------------------------------------- universe
NULL == "NULL"
Objects == {"A", "B"}
Links == 1..MaxLinks

G_BINDING_DEFAULT == "G_BINDING_DEFAULT"
G_BINDING_BIDIRECTIONAL == "G_BINDING_BIDIRECTIONAL"
BindingFlags == {G_BINDING_DEFAULT, G_BINDING_BIDIRECTIONAL}

G_TYPE_INT == "gint"
G_TYPE_STRING == "gchararray"
\* Further value types a transform can meet: GObject, its subtype GBinding,
\* and a type of the application whose conversion to gint is registered
\* while g_value_transform fails on it.
G_TYPE_OBJECT == "GObject"
G_TYPE_BINDING == "GBinding"
G_TYPE_APP == "AppType"
ValueTypes ==
  {G_TYPE_INT, G_TYPE_STRING, G_TYPE_OBJECT, G_TYPE_BINDING, G_TYPE_APP}

\* The GParamSpecs installed on the class of the objects: value type, access
\* flags and, for integers, the declared range.
ParamSpecs ==
  [x  |-> [value_type |-> G_TYPE_INT, readable |-> TRUE, writable |-> TRUE,
           construct_only |-> FALSE, minimum |-> 0, maximum |-> MaxVal],
   y  |-> [value_type |-> G_TYPE_INT, readable |-> TRUE, writable |-> TRUE,
           construct_only |-> FALSE, minimum |-> 0, maximum |-> MaxVal - 1],
   s  |-> [value_type |-> G_TYPE_STRING, readable |-> TRUE, writable |-> TRUE,
           construct_only |-> FALSE, minimum |-> 0, maximum |-> 0],
   ro |-> [value_type |-> G_TYPE_INT, readable |-> TRUE, writable |-> FALSE,
           construct_only |-> FALSE, minimum |-> 0, maximum |-> MaxVal],
   wo |-> [value_type |-> G_TYPE_INT, readable |-> FALSE, writable |-> TRUE,
           construct_only |-> FALSE, minimum |-> 0, maximum |-> MaxVal],
   co |-> [value_type |-> G_TYPE_INT, readable |-> TRUE, writable |-> TRUE,
           construct_only |-> TRUE, minimum |-> 0, maximum |-> MaxVal],
   cw |-> [value_type |-> G_TYPE_INT, readable |-> FALSE, writable |-> TRUE,
           construct_only |-> TRUE, minimum |-> 0, maximum |-> MaxVal]]

PropNames == DOMAIN ParamSpecs

\* The properties the class of each object has: B is an instance of a class
\* without y and s.
ClassProperties ==
  [A |-> {"x", "y", "s", "ro", "wo", "co", "cw"},
   B |-> {"x", "ro", "wo", "co", "cw"}]

\* g_object_class_find_property (G_OBJECT_GET_CLASS (o), name): the pspec
\* called name, or NULL.
FindProperty(o, name) ==
  IF name \in ClassProperties[o] THEN name ELSE NULL

\* A GValue: the type tag and the data union (integer or pointer member).
IntValue(n) == [g_type |-> G_TYPE_INT, v_int |-> n, v_pointer |-> NULL]
StrValue(s) == [g_type |-> G_TYPE_STRING, v_int |-> 0, v_pointer |-> s]
PtrValue(type, ptr) == [g_type |-> type, v_int |-> 0, v_pointer |-> ptr]

\* g_value_init: the zero value of a type.
ZeroValue(type) ==
  IF type = G_TYPE_INT THEN IntValue(0) ELSE PtrValue(type, NULL)

\* The values a property of the given pspec can hold.
ValuesOf(p) ==
  IF ParamSpecs[p].value_type = G_TYPE_INT
  THEN {IntValue(n) : n \in ParamSpecs[p].minimum .. ParamSpecs[p].maximum}
  ELSE {StrValue(NULL), StrValue("a")}

\* g_param_value_validate: integers are clamped to the declared range.
ParamValueValidate(p, v) ==
  IF ParamSpecs[p].value_type = G_TYPE_INT
  THEN IF v.v_int < ParamSpecs[p].minimum
       THEN IntValue(ParamSpecs[p].minimum)
       ELSE IF v.v_int > ParamSpecs[p].maximum
       THEN IntValue(ParamSpecs[p].maximum)
       ELSE v
  ELSE v

\* ---------------------------------------------------------- GValue helpers
\* g_type_is_a: the same type, or GBinding below GObject.
TypeIsA(a, b) == a = b \/ (a = G_TYPE_BINDING /\ b = G_TYPE_OBJECT)
\* g_type_value_table_peek: a derived type uses the table of its parent.
ValueTable(a) == IF a = G_TYPE_BINDING THEN G_TYPE_OBJECT ELSE a
\* g_value_type_compatible: is-a, with the same value table.
ValueTypeCompatible(a, b) == TypeIsA(a, b) /\ ValueTable(a) = ValueTable(b)
\* The conversions registered with g_value_register_transform_func:
\* gint -> gchararray (the reverse is not), and AppType -> gint.
RegisteredTransforms ==
  {<<G_TYPE_INT, G_TYPE_STRING>>, <<G_TYPE_APP, G_TYPE_INT>>}
\* g_value_type_transformable.
ValueTypeTransformable(a, b) ==
  \/ ValueTypeCompatible(a, b)
  \/ <<a, b>> \in RegisteredTransforms
\* g_value_transform: whether the call returns TRUE; the conversion from
\* AppType fails when it is called.
ValueTransformOk(a, b) ==
  ValueTypeTransformable(a, b) /\ a # G_TYPE_APP
\* g_value_copy: the data of value_a in value_b, which keeps its type.
ValueCopy(value_a, value_b) == [value_a EXCEPT !.g_type = value_b.g_type]
\* The registered gint -> gchararray conversion prints the number ("%d").
ValueTransform(value_a, type_b) ==
  IF value_a.g_type = G_TYPE_INT /\ type_b = G_TYPE_STRING
  THEN StrValue(ToString(value_a.v_int))
  ELSE value_a

DefaultTransformWithoutCopy(value_a, value_b) ==
  [res |-> TRUE, value |-> value_b]

\* default_transform (value_a, value_b): the result and the content of
\* value_b afterwards; value_b comes in as g_value_init left it.  When the
\* types are neither related, compatible nor transformable the code reaches
\* the done label: TRUE with value_b untouched.
default_transform(value_a, value_b) ==
  IF ~TypeIsA(value_a.g_type, value_b.g_type)
  THEN IF ValueTypeCompatible(value_a.g_type, value_b.g_type)
       THEN [res |-> TRUE, value |-> ValueCopy(value_a, value_b)]
       ELSE IF ValueTypeTransformable(value_a.g_type, value_b.g_type)
            THEN IF ValueTransformOk(value_a.g_type, value_b.g_type)
                 THEN [res |-> TRUE,
                       value |-> ValueTransform(value_a, value_b.g_type)]
                 ELSE [res |-> FALSE, value |-> value_b]
            ELSE [res |-> TRUE, value |-> value_b]
  ELSE [res |-> TRUE, value |-> ValueCopy(value_a, value_b)]

\* Lines 275-279: the g_warning of default_transform.
DefaultTransformWarns(value_a, value_b) ==
  /\ ~TypeIsA(value_a.g_type, value_b.g_type)
  /\ ~ValueTypeCompatible(value_a.g_type, value_b.g_type)
  /\ ValueTypeTransformable(value_a.g_type, value_b.g_type)
  /\ ~ValueTransformOk(value_a.g_type, value_b.g_type)

DefaultTransformSwapped(value_a, value_b) ==
  default_transform(value_b, value_a)

\* default_transform_to and default_transform_from.
default_transform_to(value_a, value_b) ==
  default_transform(value_a, value_b)

default_transform_from(value_a, value_b) ==
  default_transform(value_a, value_b)

\* User transform functions handed to g_object_bind_property_full: a pair of
\* inverse integer maps (the documentation's celsius/fahrenheit pair, scaled
\* to the model's range), and a pair that copies even integers and declines
\* odd ones.  A transform declines a value that is no integer.
TransformNames == {"default_transform_to", "default_transform_from",
                   "custom_to", "custom_from",
                   "declining_to", "declining_from"}

CallTransform(fn, value_a, value_b) ==
  CASE fn = "default_transform_to" -> default_transform_to(value_a, value_b)
    [] fn = "default_transform_from" ->
         default_transform_from(value_a, value_b)
    [] fn = "custom_to" ->
         IF value_a.g_type = G_TYPE_INT /\ value_b.g_type = G_TYPE_INT
         THEN [res |-> TRUE, value |-> IntValue(value_a.v_int + 1)]
         ELSE [res |-> FALSE, value |-> value_b]
    [] fn = "custom_from" ->
         IF value_a.g_type = G_TYPE_INT /\ value_b.g_type = G_TYPE_INT
         THEN [res |-> TRUE, value |-> IntValue(value_a.v_int - 1)]
         ELSE [res |-> FALSE, value |-> value_b]
    [] fn \in {"declining_to", "declining_from"} ->
         IF /\ value_a.g_type = G_TYPE_INT /\ value_b.g_type = G_TYPE_INT
            /\ value_a.v_int % 2 = 0
         THEN [res |-> TRUE, value |-> value_a]
         ELSE [res |-> FALSE, value |-> value_b]

\* ------------------------------------------------------------------- state
VARIABLES
  alive,      \* alive[o]: the GObject o has not been finalized
  val,        \* val[o][p]: the value stored in property p of o
  handlers,   \* handlers[o]: the "notify" handlers connected to o, in order
  weak_refs,  \* weak_refs[o]: the (weak_unbind, binding) weak references on o
  qdata,      \* qdata[o]: the "g-binding" GList kept as qdata of o
  binding,    \* binding[b]: the fields of the GBinding instance b
  released,   \* released[b]: how often binding->notify (transform_data) ran
  finalized,  \* finalized[b]: how often g_binding_finalize ran on b
  uaf,        \* uaf[b]: how often code ran on b after it was freed
  holder,     \* holder[b]: what the creator of b holds
  crashed,    \* the process aborted on a use of freed memory
  strong,     \* strong[o]: the owning references bindings hold on o
  observer,   \* the handlers connected to the GDBusAuthObserver, in order
  auth,       \* the last authorize call on the observer and its emission
  dispatch,   \* the notify emissions in progress (small-step dispatch)
  xform,      \* the last call of a default transform and what it returned
  last        \* the last external operation and what it returned

vars == <<alive, val, handlers, weak_refs, qdata, binding, released,
          finalized, uaf, holder, crashed, strong, observer, auth, dispatch,
          xform, last>>

\* struct _GBinding, before g_object_new and after the instance is freed.
NoBinding ==
  [st |-> "none", source |-> NULL, target |-> NULL,
   source_property |-> NULL, target_property |-> NULL,
   flags |-> G_BINDING_DEFAULT,
   transform_s2t |-> NULL, transform_t2s |-> NULL,
   source_notify |-> 0, target_notify |-> 0,
   transform_data |-> NULL, notify |-> NULL,
   is_frozen |-> FALSE, ref_count |-> 0]

FreedBinding == [NoBinding EXCEPT !.st = "freed"]

\* The "g-binding" qdata of an object: head is the list from the stored
\* pointer on, before the nodes linked in front of it, dangling says that the
\* stored pointer is a freed node, reused that a freed node was read or
\* written again.
EmptyList ==
  [head |-> <<>>, before |-> <<>>, dangling |-> FALSE, reused |-> FALSE]

\* The part of the state the teardown routines work on, with the record of
\* the calls they make on objects (call, instance).
World ==
  [handlers |-> handlers, weak_refs |-> weak_refs, qdata |-> qdata,
   binding |-> binding, released |-> released, finalized |-> finalized,
   uaf |-> uaf, touched |-> {}]

Touch(w, call, o) == [w EXCEPT !.touched = @ \cup {<<call, o>>}]

\* ----------------------------------------------------------- seq helpers
RECURSIVE RemoveFirst(_, _)
RemoveFirst(seq, x) ==
  IF seq = <<>> THEN <<>>
  ELSE IF Head(seq) = x THEN Tail(seq)
  ELSE <<Head(seq)>> \o RemoveFirst(Tail(seq), x)

RECURSIVE RemoveId(_, _)
RemoveId(seq, id) ==
  IF seq = <<>> THEN <<>>
  ELSE IF Head(seq).id = id THEN Tail(seq)
  ELSE <<Head(seq)>> \o RemoveId(Tail(seq), id)

Occurrences(seq, x) == Cardinality({i \in 1..Len(seq) : seq[i] = x})

\* ------------------------------------------------------ GObject services
\* The handler id g_signal_connect returns for the handler of b on a side.
HandlerId(b, side) == IF side = "source" THEN 2 * b - 1 ELSE 2 * b

\* g_signal_connect (object, "notify", cb, b): appended to the handler list.
SignalConnect(w, o, cb, b, side) ==
  [w EXCEPT !.handlers[o] =
     Append(@, [id |-> HandlerId(b, side), cb |-> cb, data |-> b])]

\* g_signal_handler_disconnect; on a NULL instance it only logs.
SignalHandlerDisconnect(w, o, id) ==
  IF o = NULL THEN Touch(w, "g_signal_handler_disconnect", o)
  ELSE [Touch(w, "g_signal_handler_disconnect", o)
          EXCEPT !.handlers[o] = RemoveId(@, id)]

\* g_object_weak_ref (object, weak_unbind, b).
ObjectWeakRef(w, o, b) == [w EXCEPT !.weak_refs[o] = Append(@, b)]

\* g_object_weak_unref (object, weak_unbind, b): drops one matching entry;
\* on a NULL object it only logs.
ObjectWeakUnref(w, o, b) ==
  IF o = NULL THEN Touch(w, "g_object_weak_unref", o)
  ELSE [Touch(w, "g_object_weak_unref", o)
          EXCEPT !.weak_refs[o] = RemoveFirst(@, b)]

\* ----------------------------------------------------- binding registry
\* add_binding_qdata: the first binding of an object becomes the stored
\* list; a later one is prepended to the list the qdata points at, and the
\* new head g_list_prepend returns is not stored back, so the node is linked
\* in front of the stored head.
add_binding_qdata(w, o, b) ==
  IF w.qdata[o].head = <<>> /\ ~w.qdata[o].dangling
  THEN [w EXCEPT !.qdata[o].head = <<b>>]
  ELSE [w EXCEPT !.qdata[o].before = Append(@, b),
                 !.qdata[o].reused = @ \/ w.qdata[o].dangling]

\* remove_binding_qdata: g_list_remove from the stored pointer on; the list
\* it returns is not stored back, so removing the stored head leaves the
\* qdata pointing at the freed node, which the next call walks.  On a NULL
\* object nothing is found.
remove_binding_qdata(w, o, b) ==
  LET w1 == Touch(w, "remove_binding_qdata", o) IN
  IF o = NULL THEN w1
  ELSE IF w.qdata[o].dangling THEN [w1 EXCEPT !.qdata[o].reused = TRUE]
  ELSE IF w.qdata[o].head # <<>> /\ Head(w.qdata[o].head) = b
  THEN [w1 EXCEPT !.qdata[o].head = Tail(@), !.qdata[o].dangling = TRUE]
  ELSE [w1 EXCEPT !.qdata[o].head = RemoveFirst(@, b)]

\* ------------------------------------------------------------- teardown
FinalizeWithoutDisconnect(w, b) ==
  [w EXCEPT !.binding[b] = FreedBinding, !.finalized[b] = @ + 1,
            !.released[b] = IF w.binding[b].notify # NULL THEN @ + 1 ELSE @]

\* g_binding_finalize followed by the parent finalize that frees the
\* instance.
g_binding_finalize(w, b) ==
  LET bd == w.binding[b]
      w1 == IF bd.notify # NULL
            THEN [w EXCEPT !.released[b] = @ + 1]
            ELSE w
      w2 == IF bd.source # NULL
            THEN remove_binding_qdata(
                   ObjectWeakUnref(
                     IF bd.source_notify # 0
                     THEN SignalHandlerDisconnect(w1, bd.source, bd.source_notify)
                     ELSE w1,
                     bd.source, b),
                   bd.source, b)
            ELSE w1
      w3 == IF bd.target # NULL
            THEN remove_binding_qdata(
                   ObjectWeakUnref(
                     IF bd.target_notify # 0
                     THEN SignalHandlerDisconnect(w2, bd.target, bd.target_notify)
                     ELSE w2,
                     bd.target, b),
                   bd.target, b)
            ELSE w2
  IN [w3 EXCEPT !.binding[b] = FreedBinding, !.finalized[b] = @ + 1]

\* g_object_unref (binding): the last reference finalizes the instance.  On
\* a freed instance the call is a use after free, counted in uaf.
g_object_unref(w, b) ==
  IF w.binding[b].st = "freed"
  THEN [w EXCEPT !.uaf[b] = @ + 1]
  ELSE IF w.binding[b].ref_count = 1
  THEN g_binding_finalize(w, b)
  ELSE [w EXCEPT !.binding[b].ref_count = @ - 1]

\* The source half of weak_unbind (lines 225-235).
WeakUnbindSourceUnconditional(w, b, where) ==
  LET bd == w.binding[b] IN
  [remove_binding_qdata(
     ObjectWeakUnref(
       SignalHandlerDisconnect(w, bd.source, bd.source_notify),
       bd.source, b),
     bd.source, b)
   EXCEPT !.binding[b].source = NULL]

WeakUnbindSource(w, b, where) ==
  LET bd == w.binding[b] IN
  IF bd.source = where
  THEN [w EXCEPT !.binding[b].source = NULL]
  ELSE [remove_binding_qdata(
          ObjectWeakUnref(
            IF bd.source_notify # 0
            THEN SignalHandlerDisconnect(w, bd.source, bd.source_notify)
            ELSE w,
            bd.source, b),
          bd.source, b)
        EXCEPT !.binding[b].source = NULL]

WeakUnbindTargetLeaky(w, b, where) ==
  [w EXCEPT !.binding[b].target = NULL]

\* The target half of weak_unbind (lines 237-247).
WeakUnbindTarget(w, b, where) ==
  LET bd == w.binding[b] IN
  IF bd.target = where
  THEN [w EXCEPT !.binding[b].target = NULL]
  ELSE [remove_binding_qdata(
          ObjectWeakUnref(
            IF bd.target_notify # 0
            THEN SignalHandlerDisconnect(w, bd.target, bd.target_notify)
            ELSE w,
            bd.target, b),
          bd.target, b)
        EXCEPT !.binding[b].target = NULL]

WeakUnbindKeepsRef(w, b, where) ==
  IF w.binding[b].st = "freed"
  THEN [w EXCEPT !.uaf[b] = @ + 1]
  ELSE WeakUnbindTarget(WeakUnbindSource(w, b, where), b, where)

\* weak_unbind (binding, where_the_object_was).  Run on a freed instance it
\* reads freed memory: with the memory as finalize left it, source and
\* target read NULL, every call on them only logs, and g_object_unref
\* rejects the instance; the use is counted in uaf.
weak_unbind(w, b, where) ==
  IF w.binding[b].st = "freed"
  THEN [w EXCEPT !.uaf[b] = @ + 1]
  ELSE g_object_unref(
         WeakUnbindTarget(WeakUnbindSource(w, b, where), b, where), b)

\* The weak notifications of a dying object, in the order of its weak
\* reference list.
RECURSIVE WeakRefsNotify(_, _, _)
WeakRefsNotify(w, refs, where) ==
  IF refs = <<>> THEN w
  ELSE WeakRefsNotify(weak_unbind(w, Head(refs), where), Tail(refs), where)

\* ------------------------------------------------------------- creation
\* The arguments of g_object_bind_property_full.
BindArgs(src, sp, tgt, tp, flags, to, from, data, notify) ==
  [source |-> src, source_property |-> sp, target |-> tgt,
   target_property |-> tp, flags |-> flags, transform_to |-> to,
   transform_from |-> from, user_data |-> data, notify |-> notify]

SameObjectAnyProperty(a) == a.source = a.target

\* Line 795: the same property on the same instance.
SameProperty(a) ==
  a.source = a.target /\ a.source_property = a.target_property

\* binding->flags & G_BINDING_BIDIRECTIONAL.
AlwaysBidirectional(flags) == TRUE

IsBidirectional(flags) == flags = G_BINDING_BIDIRECTIONAL

\* Line 817.
SourceNotReadable(pspec) == ~ParamSpecs[pspec].readable

\* Lines 826-827.
SourceNotWritable(flags, pspec) ==
  /\ IsBidirectional(flags)
  /\ (ParamSpecs[pspec].construct_only \/ ~ParamSpecs[pspec].writable)

TargetNotWritableIgnoringConstructOnly(pspec) == ~ParamSpecs[pspec].writable

\* Line 846.
TargetNotWritable(pspec) ==
  ParamSpecs[pspec].construct_only \/ ~ParamSpecs[pspec].writable

\* Lines 855-856.
TargetNotReadable(flags, pspec) ==
  IsBidirectional(flags) /\ ~ParamSpecs[pspec].readable

\* The checks of g_object_bind_property_full in their order (lines
\* 795-863): the warning that makes it return NULL, or "ok".
BindCheck(a) ==
  LET spspec == FindProperty(a.source, a.source_property)
      tpspec == FindProperty(a.target, a.target_property)
  IN  IF SameProperty(a) THEN "same-property"
      ELSE IF spspec = NULL THEN "no-source-property"
      ELSE IF SourceNotReadable(spspec) THEN "source-not-readable"
      ELSE IF SourceNotWritable(a.flags, spspec) THEN "source-not-writable"
      ELSE IF tpspec = NULL THEN "no-target-property"
      ELSE IF TargetNotWritable(tpspec) THEN "target-not-writable"
      ELSE IF TargetNotReadable(a.flags, tpspec) THEN "target-not-readable"
      ELSE "ok"

TargetWeakRefOmitted(w, a, b) == w

\* Line 541: g_object_weak_ref (binding->target, weak_unbind, binding).
TargetWeakRef(w, a, b) == ObjectWeakRef(w, a.target, b)

\* g_object_new (G_TYPE_BINDING, ...): the construct properties are set
\* (g_binding_set_property) and g_binding_constructed connects the handlers,
\* takes the weak references and fills the registry.  The new instance has
\* one reference.
g_binding_constructed(w, b, a) ==
  LET w0 == [w EXCEPT !.binding[b] =
               [NoBinding EXCEPT
                  !.st = "live",
                  !.source = a.source,
                  !.target = a.target,
                  !.source_property = a.source_property,
                  !.target_property = a.target_property,
                  !.flags = a.flags,
                  !.transform_s2t = "default_transform_to",
                  !.transform_t2s = "default_transform_from",
                  !.source_notify = HandlerId(b, "source"),
                  !.target_notify = IF IsBidirectional(a.flags)
                                    THEN HandlerId(b, "target") ELSE 0,
                  !.ref_count = 1]]
      w1 == add_binding_qdata(
              ObjectWeakRef(
                SignalConnect(w0, a.source, "on_source_notify", b, "source"),
                a.source, b),
              a.source, b)
      w2 == IF IsBidirectional(a.flags)
            THEN SignalConnect(w1, a.target, "on_target_notify", b, "target")
            ELSE w1
  IN  add_binding_qdata(TargetWeakRef(w2, a, b), a.target, b)

\* Lines 801-805 and 865-879: the binding is created and given the
\* transforms (the defaults for NULL), the user data and its notify.
g_object_bind_property_full(w, b, a) ==
  LET w1 == g_binding_constructed(w, b, a) IN
  [w1 EXCEPT
     !.binding[b].transform_s2t =
        IF a.transform_to = NULL THEN "default_transform_to"
        ELSE a.transform_to,
     !.binding[b].transform_t2s =
        IF a.transform_from = NULL THEN "default_transform_from"
        ELSE a.transform_from,
     !.binding[b].transform_data = a.user_data,
     !.binding[b].notify = a.notify]

StrongRefsAfterDupObject(r, a) ==
  [o \in Objects |-> r[o] + (IF o = a.source THEN 1 ELSE 0)
                          + (IF o = a.target THEN 1 ELSE 0)]

\* The owning references on the objects after g_object_new has set the
\* construct properties (g_binding_set_property, lines 441-451): source and
\* target are stored with g_value_get_object, which takes no reference.
StrongRefsAfterNew(r, a) == r

ValuesAfterSyncCreate(v, a) ==
  [v EXCEPT ![a.target][a.target_property] =
     ParamValueValidate(a.target_property,
        default_transform(v[a.source][a.source_property],
                          ZeroValue(ParamSpecs[a.target_property].value_type)
                         ).value)]

\* The property values after g_binding_constructed (lines 503-545): it
\* connects the handlers and returns without running one, so no value is
\* read or written.
ValuesAfterConstructed(v, a) == v

BindWithoutChecks(w, b, a) == g_object_bind_property_full(w, b, a)

\* The whole call (lines 790-880): every check comes before g_object_new,
\* so a call that warns returns before anything was created or connected.
BindOutcome(w, b, a) ==
  IF BindCheck(a) = "ok" THEN g_object_bind_property_full(w, b, a) ELSE w

\* ---------------------------------------------------------- propagation
\* A notify dispatch in progress.  stack holds one frame per
\* g_object_set_property call that is emitting "notify": the object and
\* property, the handlers to run, the next one, and the binding whose
\* handler made the call (0 for the external caller).  hops logs the writes
\* made by bindings, each with the guard of the writing binding at the time
\* of the write, skipped and declined count the handler activations
\* stopped by the guard and by a failed transform.
Machine(w, v0) ==
  [val |-> v0, binding |-> w.binding, handlers |-> w.handlers,
   stack |-> <<>>, hops |-> <<>>, skipped |-> 0, declined |-> 0,
   steps |-> 0]

\* g_object_set_property followed by the start of the notify emission.
ObjectSetProperty(m, o, p, v, caller) ==
  [m EXCEPT
     !.val[o][p] = v,
     !.hops = IF caller = 0 THEN @
              ELSE Append(@, [by |-> caller, obj |-> o, prop |-> p, v |-> v,
                              frozen |-> m.binding[caller].is_frozen]),
     !.stack = Append(@, [obj |-> o, pspec |-> p, hs |-> m.handlers[o],
                          i |-> 1, caller |-> caller])]

NeverFrozen(bd) == FALSE

\* Lines 319 and 363: the guard.
IsFrozen(bd) == bd.is_frozen

UsesForwardTransform(bd) == bd.transform_s2t

\* Line 379: the transform of the target-to-source direction.
BackwardTransform(bd) == bd.transform_t2s

\* Line 335: the transform of the source-to-target direction.
ForwardTransform(bd) == bd.transform_s2t

TransformResultIgnored(r) == TRUE

\* Lines 339 and 383: if (res).
TransformAccepted(r) == r.res

WrittenWithoutValidate(pspec, value) == value

\* Lines 343 and 387: g_param_value_validate on the transformed value.
ValidatedForWrite(pspec, value) == ParamValueValidate(pspec, value)

NameAlwaysMatches(p_name, property) == FALSE

\* Lines 328 and 372: p_name != binding->source_property, a comparison of
\* interned strings.
NameMismatch(p_name, property) == p_name # property

GuardNotSet(m, b) == m

\* Lines 341 and 385: binding->is_frozen = TRUE.
GuardSet(m, b) == [m EXCEPT !.binding[b].is_frozen = TRUE]

OnSourceNotifyUnguarded(m, pspec, b) ==
  LET bd == m.binding[b]
      spspec == FindProperty(bd.source, bd.source_property)
      tpspec == FindProperty(bd.target, bd.target_property)
  IN
  IF NameMismatch(pspec, bd.source_property) THEN m
  ELSE
    LET r == CallTransform(ForwardTransform(bd),
                           m.val[bd.source][spspec],
                           ZeroValue(ParamSpecs[tpspec].value_type))
    IN IF TransformAccepted(r)
       THEN ObjectSetProperty(GuardSet(m, b),
                              bd.target, tpspec,
                              ValidatedForWrite(tpspec, r.value), b)
       ELSE [m EXCEPT !.declined = @ + 1]

\* on_source_notify (gobject, pspec, binding), up to the point where
\* g_object_set_property has stored the value and starts to notify; the
\* guard is cleared when that call returns (Step).
on_source_notify(m, pspec, b) ==
  LET bd == m.binding[b]
      spspec == FindProperty(bd.source, bd.source_property)
      tpspec == FindProperty(bd.target, bd.target_property)
  IN
  IF IsFrozen(bd) THEN [m EXCEPT !.skipped = @ + 1]
  ELSE IF NameMismatch(pspec, bd.source_property) THEN m
  ELSE
    LET r == CallTransform(ForwardTransform(bd),
                           m.val[bd.source][spspec],
                           ZeroValue(ParamSpecs[tpspec].value_type))
    IN IF TransformAccepted(r)
       THEN ObjectSetProperty(GuardSet(m, b),
                              bd.target, tpspec,
                              ValidatedForWrite(tpspec, r.value), b)
       ELSE [m EXCEPT !.declined = @ + 1]

OnTargetNotifyUnguarded(m, pspec, b) ==
  LET bd == m.binding[b]
      spspec == FindProperty(bd.source, bd.source_property)
      tpspec == FindProperty(bd.target, bd.target_property)
  IN
  IF NameMismatch(pspec, bd.target_property) THEN m
  ELSE
    LET r == CallTransform(BackwardTransform(bd),
                           m.val[bd.target][tpspec],
                           ZeroValue(ParamSpecs[spspec].value_type))
    IN IF TransformAccepted(r)
       THEN ObjectSetProperty(GuardSet(m, b),
                              bd.source, spspec,
                              ValidatedForWrite(spspec, r.value), b)
       ELSE [m EXCEPT !.declined = @ + 1]

\* on_target_notify (gobject, pspec, binding): the mirror image.
on_target_notify(m, pspec, b) ==
  LET bd == m.binding[b]
      spspec == FindProperty(bd.source, bd.source_property)
      tpspec == FindProperty(bd.target, bd.target_property)
  IN
  IF IsFrozen(bd) THEN [m EXCEPT !.skipped = @ + 1]
  ELSE IF NameMismatch(pspec, bd.target_property) THEN m
  ELSE
    LET r == CallTransform(BackwardTransform(bd),
                           m.val[bd.target][tpspec],
                           ZeroValue(ParamSpecs[spspec].value_type))
    IN IF TransformAccepted(r)
       THEN ObjectSetProperty(GuardSet(m, b),
                              bd.source, spspec,
                              ValidatedForWrite(spspec, r.value), b)
       ELSE [m EXCEPT !.declined = @ + 1]

\* A notify handler of the application, connected next to those of the
\* bindings: it resets the property x of its object to 0 when x has reached
\* MaxVal, by a write from inside the emission.
on_app_notify(m, o, pspec) ==
  IF pspec = "x" /\ m.val[o]["x"] = IntValue(MaxVal)
  THEN ObjectSetProperty(m, o, "x", IntValue(0), 0)
  ELSE m

GuardLeftSet(bindings, b) == bindings

\* Lines 346 and 390: binding->is_frozen = FALSE, when g_object_set_property
\* has returned.
GuardClear(bindings, b) == [bindings EXCEPT ![b].is_frozen = FALSE]

\* One step of the dispatch: the next handler of the innermost emission
\* runs, or that emission is over and g_object_set_property returns to the
\* handler that called it, which clears its guard (lines 346 and 390).
Step(m) ==
  LET n == Len(m.stack)
      top == m.stack[n]
  IN
  IF top.i > Len(top.hs)
  THEN [m EXCEPT
          !.stack = SubSeq(@, 1, n - 1),
          !.binding = IF top.caller = 0 THEN @
                      ELSE GuardClear(@, top.caller)]
  ELSE
    LET h == top.hs[top.i]
        m1 == [m EXCEPT !.stack[n].i = @ + 1, !.steps = @ + 1]
    IN IF h.cb = "on_source_notify"
       THEN on_source_notify(m1, top.pspec, h.data)
       ELSE IF h.cb = "on_target_notify"
       THEN on_target_notify(m1, top.pspec, h.data)
       ELSE on_app_notify(m1, top.obj, top.pspec)

\* The dispatch run to its end, or until MaxSteps handlers have run.
RECURSIVE Run(_)
Run(m) ==
  IF m.stack = <<>> \/ m.steps >= MaxSteps THEN m ELSE Run(Step(m))

\* ------------------------------------------------------ GDBusAuthObserver
\* The streams and the credentials the peer may have sent (NULL: none).
Streams == {"stream1", "stream2"}
Credentials == {NULL, "own", "other"}

\* The handlers an application connects to authorize-authenticated-peer:
\* one that always allows, one that always denies, and the handler of the
\* documentation (lines 48-67), which allows the server's own user only.
HandlerKinds == {"allow", "deny", "same_user"}

HandlerReturn(kind, stream, credentials) ==
  CASE kind = "allow" -> TRUE
    [] kind = "deny" -> FALSE
    [] kind = "same_user" -> credentials # NULL /\ credentials = "own"

AuthorizeRealDenies(stream, credentials) == FALSE

\* g_dbus_auth_observer_authorize_authenticated_peer_real, the class
\* handler (lines 125-131).
g_dbus_auth_observer_authorize_authenticated_peer_real(stream, credentials) ==
  TRUE

\* _g_signal_accumulator_false_handled: the handler's return value becomes
\* the return value of the emission, and the emission goes on only if it is
\* TRUE.
SignalAccumulatorFalseHandled(ret) == [continue |-> ret, accu |-> ret]

\* g_signal_accumulator_true_handled: the emission stops at the first TRUE.
SignalAccumulatorTrueHandled(ret) == [continue |-> ~ret, accu |-> ret]

\* The accumulator the signal is created with (line 160).
AuthorizeAccumulator(ret) == SignalAccumulatorFalseHandled(ret)

\* The emission of a G_SIGNAL_RUN_LAST signal from handler i of hs on: the
\* connected handlers in the order of their connection, then the class
\* handler.  e carries the return value so far and the handlers that ran.
RECURSIVE SignalEmit(_, _, _, _, _)
SignalEmit(hs, i, stream, credentials, e) ==
  IF i <= Len(hs)
  THEN LET ret == HandlerReturn(hs[i], stream, credentials)
           a == AuthorizeAccumulator(ret)
           e1 == [e EXCEPT !.result = a.accu, !.ran = Append(@, ret)]
       IN IF a.continue
          THEN SignalEmit(hs, i + 1, stream, credentials, e1)
          ELSE e1
  ELSE LET ret == g_dbus_auth_observer_authorize_authenticated_peer_real(
                    stream, credentials)
           a == AuthorizeAccumulator(ret)
       IN [e EXCEPT !.result = a.accu, !.default_ran = TRUE,
                    !.default_returned = ret]

\* g_dbus_auth_observer_authorize_authenticated_peer (lines 203-218): the
\* return value starts as FALSE and is what the emission leaves in it.
g_dbus_auth_observer_authorize_authenticated_peer(hs, stream, credentials) ==
  SignalEmit(hs, 1, stream, credentials,
             [called |-> TRUE, hs |-> hs, stream |-> stream,
              credentials |-> credentials, result |-> FALSE, ran |-> <<>>,
              default_ran |-> FALSE,
              default_returned |-> FALSE])

\* No emission is in progress.
NoDispatch == [stack |-> <<>>, steps |-> 0]

\* No default transform was called yet.
NoTransform ==
  [called |-> FALSE, fn |-> NULL, value_a |-> ZeroValue(G_TYPE_INT),
   value_b |-> ZeroValue(G_TYPE_INT), res |-> FALSE,
   value |-> ZeroValue(G_TYPE_INT), warned |-> FALSE]

\* No authorize call was made yet.
NoAuth ==
  [called |-> FALSE, hs |-> <<>>, stream |-> NULL, credentials |-> NULL,
   result |-> FALSE, ran |-> <<>>, default_ran |-> FALSE,
   default_returned |-> FALSE]

\* g_binding_get_source (binding) and g_binding_get_target (binding) on an
\* instance that is still allocated.
g_binding_get_source(b) == binding[b].source

g_binding_get_target(b) == binding[b].target

\* ----------------------------------------------------------------- init
NoArgs == BindArgs(NULL, NULL, NULL, NULL, G_BINDING_DEFAULT,
                   NULL, NULL, NULL, NULL)

NoValue == ZeroValue(G_TYPE_INT)

\* What the last external operation was and what it returned: for bind the
\* arguments, the warning and the new instance; for a property write the
\* log of its dispatch; for a destruction the bindings whose weak_unbind
\* ran, as they were before, and the calls weak_unbind made on objects.
Last(op, obj, prop, v, link) ==
  [op |-> op, obj |-> obj, prop |-> prop, v |-> v, link |-> link,
   args |-> NoArgs, err |-> NULL, hops |-> <<>>, skipped |-> 0,
   declined |-> 0, done |-> TRUE, torn |-> <<>>, touched |-> {}]

Init ==
  /\ alive = [o \in Objects |-> TRUE]
  /\ val = [o \in Objects |->
              [p \in PropNames |-> ZeroValue(ParamSpecs[p].value_type)]]
  /\ handlers = [o \in Objects |-> <<>>]
  /\ weak_refs = [o \in Objects |-> <<>>]
  /\ qdata = [o \in Objects |-> EmptyList]
  /\ binding = [b \in Links |-> NoBinding]
  /\ released = [b \in Links |-> 0]
  /\ finalized = [b \in Links |-> 0]
  /\ uaf = [b \in Links |-> 0]
  /\ holder = [b \in Links |-> "none"]
  /\ crashed = FALSE
  /\ strong = [o \in Objects |-> 0]
  /\ observer = <<>>
  /\ auth = NoAuth
  /\ dispatch = NoDispatch
  /\ xform = NoTransform
  /\ last = Last("init", NULL, NULL, NoValue, 0)

\* The teardown state w becomes the next state.
Install(w) ==
  /\ handlers' = w.handlers
  /\ weak_refs' = w.weak_refs
  /\ qdata' = w.qdata
  /\ binding' = w.binding
  /\ released' = w.released
  /\ finalized' = w.finalized
  /\ uaf' = w.uaf

\* A use of freed memory either goes unnoticed or aborts the process.
UseAfterFreeOutcome(w) ==
  IF \/ w.uaf # uaf
     \/ \E o \in Objects : w.qdata[o].reused /\ ~qdata[o].reused
  THEN crashed' \in BOOLEAN
  ELSE crashed' = crashed

\* -------------------------------------------------------------- actions
\* g_object_bind_property_full (a...) by the application.  The objects are
\* live (G_IS_OBJECT); the new instance takes the first unused slot.  With
\* solo the application keeps one binding at a time and allocates MaxSolo
\* in all.
Bind(a, solo) ==
  /\ ~crashed
  /\ UNCHANGED <<observer, auth, dispatch, xform>>
  /\ alive[a.source] /\ alive[a.target]
  /\ LET err == BindCheck(a) IN
     IF err # "ok"
     THEN /\ last' = [Last("bind", NULL, NULL, NoValue, 0)
                        EXCEPT !.args = a, !.err = err]
          /\ IF \E b \in Links : binding[b].st = "none"
             THEN Install(BindOutcome(
                    World, CHOOSE b \in Links : binding[b].st = "none", a))
             ELSE UNCHANGED <<handlers, weak_refs, qdata, binding,
                              released, finalized, uaf>>
          /\ UNCHANGED <<alive, val, holder, crashed, strong>>
     ELSE /\ \E b \in Links : binding[b].st = "none"
          /\ solo => /\ \A c \in Links : binding[c].st # "live"
                      /\ Cardinality({d \in Links : binding[d].st # "none"})
                           < MaxSolo
          /\ LET b == CHOOSE c \in Links :
                        /\ binding[c].st = "none"
                        /\ \A d \in Links : binding[d].st = "none" => c <= d
             IN /\ Install(BindOutcome(World, b, a))
                /\ UseAfterFreeOutcome(BindOutcome(World, b, a))
                /\ holder' = [holder EXCEPT ![b] = "handle"]
                /\ last' = [Last("bind", NULL, NULL, NoValue, b)
                              EXCEPT !.args = a, !.err = err]
          /\ val' = ValuesAfterConstructed(val, a)
          /\ strong' = StrongRefsAfterNew(strong, a)
          /\ UNCHANGED alive

\* The finished dispatch m of the write of v to o.p becomes the next state.
InstallMachine(m, o, p, v) ==
  /\ val' = m.val
  /\ binding' = m.binding
  /\ last' = [Last("set", o, p, v, 0)
                EXCEPT !.hops = m.hops, !.skipped = m.skipped,
                       !.declined = m.declined,
                       !.done = (m.stack = <<>>)]

\* g_object_set (o, p, v) by the application: the value is stored and
\* "notify" is emitted; the handlers of the bindings run inside the call.
\* v is a value of the property's type within its declared range.
SetProperty(o, p, v) ==
  /\ ~crashed
  /\ UNCHANGED <<observer, auth, dispatch, xform>>
  /\ alive[o]
  /\ ParamSpecs[p].writable /\ ~ParamSpecs[p].construct_only
  /\ InstallMachine(Run(ObjectSetProperty(Machine(World, val), o, p, v, 0)),
                    o, p, v)
  /\ UNCHANGED <<alive, handlers, weak_refs, qdata, released, finalized,
                 uaf, holder, crashed, strong>>

\* The release of o by its owners drops its last reference: no binding
\* holds one.
LastReferenceDropped(o) == alive[o] /\ strong[o] = 0

\* The last reference to the object o is dropped: its weak references are
\* notified, then its handlers and qdata go and its memory is freed.
Destroy(o) ==
  /\ ~crashed
  /\ UNCHANGED <<observer, auth, dispatch, xform>>
  /\ LastReferenceDropped(o)
  /\ LET w == WeakRefsNotify([World EXCEPT !.weak_refs[o] = <<>>],
                             weak_refs[o], o)
     IN /\ Install([w EXCEPT !.handlers[o] = <<>>,
                             !.qdata[o] = EmptyList])
        /\ UseAfterFreeOutcome(w)
  /\ alive' = [alive EXCEPT ![o] = FALSE]
  /\ val' = [val EXCEPT ![o] =
               [p \in PropNames |-> ZeroValue(ParamSpecs[p].value_type)]]
  /\ last' = [Last("destroy", o, NULL, NoValue, 0) EXCEPT
                !.touched =
                   WeakRefsNotify([World EXCEPT !.weak_refs[o] = <<>>],
                                  weak_refs[o], o).touched,
                !.torn = [i \in 1..Len(weak_refs[o]) |->
                            [b |-> weak_refs[o][i],
                             source |-> binding[weak_refs[o][i]].source,
                             target |-> binding[weak_refs[o][i]].target,
                             flags |-> binding[weak_refs[o][i]].flags,
                             notify |-> binding[weak_refs[o][i]].notify]]]
  /\ UNCHANGED <<holder, strong>>

\* The creator removes the binding: g_object_unref on the instance bind
\* returned, while both endpoints are alive.
Unbind(b) ==
  /\ ~crashed
  /\ UNCHANGED <<observer, auth, dispatch, xform>>
  /\ holder[b] = "handle"
  /\ binding[b].st = "live"
  /\ binding[b].source # NULL /\ binding[b].target # NULL
  /\ Install(g_object_unref(World, b))
  /\ UseAfterFreeOutcome(g_object_unref(World, b))
  /\ holder' = [holder EXCEPT ![b] = "released"]
  /\ last' = Last("unbind", NULL, NULL, NoValue, b)
  /\ UNCHANGED <<alive, val, strong>>

\* The creator keeps the instance: g_object_ref on the returned pointer.
HolderRef(b) ==
  /\ ~crashed
  /\ UNCHANGED <<observer, auth, dispatch, xform>>
  /\ holder[b] = "handle"
  /\ binding[b].st = "live"
  /\ binding[b].source # NULL /\ binding[b].target # NULL
  /\ binding' = [binding EXCEPT ![b].ref_count = @ + 1]
  /\ holder' = [holder EXCEPT ![b] = "ref"]
  /\ last' = Last("ref", NULL, NULL, NoValue, b)
  /\ UNCHANGED <<alive, val, handlers, weak_refs, qdata, released,
                 finalized, uaf, crashed, strong>>

\* The creator drops the reference it took with g_object_ref.
HolderUnref(b) ==
  /\ ~crashed
  /\ UNCHANGED <<observer, auth, dispatch, xform>>
  /\ holder[b] = "ref"
  /\ LET w == g_object_unref(World, b) IN
     /\ Install(w)
     /\ UseAfterFreeOutcome(w)
  /\ holder' = [holder EXCEPT ![b] =
                  IF binding[b].st = "live" /\ binding[b].source # NULL
                  THEN "handle" ELSE "released"]
  /\ last' = Last("unref", NULL, NULL, NoValue, b)
  /\ UNCHANGED <<alive, val, strong>>

\* More handler runs than one external write can cause: an emission runs at
\* most 2 * MaxLinks + 1 handlers and emissions nest at most MaxLinks + 1
\* deep.
MaxDispatchSteps == (2 * MaxLinks + 1) ^ (MaxLinks + 1)

\* The dispatch in progress as a machine, and a machine as the next state.
CurrentMachine ==
  [val |-> val, binding |-> binding, handlers |-> handlers,
   stack |-> dispatch.stack, hops |-> last.hops, skipped |-> last.skipped,
   declined |-> last.declined, steps |-> dispatch.steps]

InstallStep(m) ==
  /\ val' = m.val
  /\ binding' = m.binding
  /\ dispatch' = [stack |-> m.stack, steps |-> m.steps]
  /\ last' = [last EXCEPT !.hops = m.hops, !.skipped = m.skipped,
                          !.declined = m.declined,
                          !.done = (m.stack = <<>>)]
  /\ UNCHANGED <<alive, handlers, weak_refs, qdata, released, finalized,
                 uaf, holder, crashed, strong, observer, auth, xform>>

\* g_object_set (o, p, v) by the application, up to the start of the notify
\* emission; the handlers run one at a time in DispatchStep.
DispatchStart(o, p, v) ==
  /\ ~crashed
  /\ dispatch.stack = <<>>
  /\ alive[o]
  /\ ParamSpecs[p].writable /\ ~ParamSpecs[p].construct_only
  /\ LET m == ObjectSetProperty(Machine(World, val), o, p, v, 0) IN
     /\ val' = m.val
     /\ binding' = m.binding
     /\ dispatch' = [stack |-> m.stack, steps |-> m.steps]
     /\ last' = [Last("set", o, p, v, 0) EXCEPT !.done = FALSE]
  /\ UNCHANGED <<alive, handlers, weak_refs, qdata, released, finalized,
                 uaf, holder, crashed, strong, observer, auth, xform>>

\* The next handler of the innermost emission runs up to its call of
\* g_object_set_property or to its return, or the innermost emission ends.
DispatchStep ==
  /\ dispatch.stack # <<>>
  /\ dispatch.steps < MaxDispatchSteps
  /\ InstallStep(Step(CurrentMachine))

\* The application connects its own notify handler to o, once.
AppConnect(o) ==
  /\ dispatch.stack = <<>>
  /\ alive[o]
  /\ \A i \in 1..Len(handlers[o]) : handlers[o][i].cb # "on_app_notify"
  /\ handlers' = [handlers EXCEPT ![o] =
       Append(@, [id |-> 2 * MaxLinks + 1, cb |-> "on_app_notify",
                  data |-> 0])]
  /\ UNCHANGED <<alive, val, weak_refs, qdata, binding, released, finalized,
                 uaf, holder, crashed, strong, observer, auth, dispatch,
                 xform, last>>

\* A call of default_transform_to or default_transform_from with value_a
\* and a value_b that g_value_init has set to the zero of type_b, as the
\* notify handlers make it (lines 330-338, 374-382).
TransformCall(fn, value_a, type_b) ==
  /\ LET value_b == ZeroValue(type_b)
         r == CallTransform(fn, value_a, value_b)
     IN xform' = [called |-> TRUE, fn |-> fn, value_a |-> value_a,
                  value_b |-> value_b, res |-> r.res, value |-> r.value,
                  warned |-> DefaultTransformWarns(value_a, value_b)]
  /\ UNCHANGED <<alive, val, handlers, weak_refs, qdata, binding, released,
                 finalized, uaf, holder, crashed, strong, observer, auth,
                 dispatch, last>>

\* g_signal_connect (observer, "authorize-authenticated-peer", handler).
ObserverConnect(kind) ==
  /\ Len(observer) < MaxHandlers
  /\ observer' = Append(observer, kind)
  /\ UNCHANGED <<alive, val, handlers, weak_refs, qdata, binding, released,
                 finalized, uaf, holder, crashed, strong, auth, dispatch,
                 xform, last>>

\* The server asks the observer about an authenticated peer.
Authorize(stream, credentials) ==
  /\ auth' = g_dbus_auth_observer_authorize_authenticated_peer(
               observer, stream, credentials)
  /\ UNCHANGED <<alive, val, handlers, weak_refs, qdata, binding, released,
                 finalized, uaf, holder, crashed, strong, observer, dispatch,
                 xform, last>>

\* ------------------------------------------------------- specifications
\* Spec: one application driving bindings between the readable and
\* writable properties x, y and s (s only as a source): within one object,
\* across objects with equal and with different ranges, from a string to an
\* integer, each one-way and bidirectional with the default transforms, and
\* the integer pairs across objects also with user transforms.  The calls
\* that bind refuses belong to SpecBind.
DefaultBindPairs ==
  {<<"A", "x", "A", "y">>, <<"A", "x", "B", "x">>, <<"A", "y", "B", "x">>,
   <<"B", "x", "A", "y">>, <<"A", "s", "B", "x">>, <<"A", "s", "A", "x">>}

CustomBindPairs ==
  {<<"A", "x", "B", "x">>, <<"B", "x", "A", "y">>}

SpecBindInputs ==
  {BindArgs(e[1], e[2], e[3], e[4], flags, NULL, NULL, NULL, NULL) :
     e \in DefaultBindPairs, flags \in BindingFlags}
  \cup
  {BindArgs(e[1], e[2], e[3], e[4], flags,
            "custom_to", "custom_from", "ctx", "release") :
     e \in CustomBindPairs, flags \in BindingFlags}

SpecSetInputs ==
  UNION {{<<op[1], op[2], v>> : v \in ValuesOf(op[2])} :
           op \in {<<"A", "x">>, <<"A", "y">>, <<"A", "s">>, <<"B", "x">>}}

Next ==
  \/ \E a \in SpecBindInputs : Bind(a, TRUE)
  \/ \E i \in SpecSetInputs : SetProperty(i[1], i[2], i[3])
  \/ \E o \in Objects : Destroy(o)
  \/ \E b \in Links : Unbind(b)
  \/ \E b \in Links : HolderRef(b)
  \/ \E b \in Links : HolderUnref(b)

Spec == Init /\ [][Next]_vars

\* SpecBind: the application calls bind with every combination of objects,
\* property names (installed with each set of access flags, or missing) and
\* flags, and removes bindings again; no property is written.
BindNameInputs == {"x", "ro", "wo", "co", "cw", "zz"}

AllBindInputs ==
  {BindArgs("A", sp, tgt, tp, flags, NULL, NULL, NULL, NULL) :
     sp \in BindNameInputs, tgt \in Objects, tp \in BindNameInputs,
     flags \in BindingFlags}

NextBind ==
  \/ \E a \in AllBindInputs : Bind(a, TRUE)
  \/ \E b \in Links : Unbind(b)

SpecBind == Init /\ [][NextBind]_vars

\* SpecDecline: a binding between A.x and B.x with the user transforms that
\* decline odd values, written to on both sides, removed again or torn
\* down with an endpoint.
DeclineBindInputs ==
  {BindArgs("A", "x", "B", "x", flags,
            "declining_to", "declining_from", "ctx", "release") :
     flags \in BindingFlags}

DeclineSetInputs ==
  {<<o, "x", v>> : o \in Objects, v \in ValuesOf("x")}

NextDecline ==
  \/ \E a \in DeclineBindInputs : Bind(a, TRUE)
  \/ \E i \in DeclineSetInputs : SetProperty(i[1], i[2], i[3])
  \/ \E b \in Links : Unbind(b)
  \/ \E o \in Objects : Destroy(o)

SpecDecline == Init /\ [][NextDecline]_vars

\* SpecDispatch: up to MaxPair bindings between A.x and B.x at once (a pair in
\* both directions, a cycle of two one-way bindings, user transforms), an
\* application handler on the objects, and the notify emission taken one
\* handler at a time.
DispatchBindInputs ==
  {BindArgs("A", "x", "B", "x", flags, NULL, NULL, NULL, NULL) :
     flags \in BindingFlags}
  \cup
  {BindArgs("B", "x", "A", "x", G_BINDING_DEFAULT, NULL, NULL, NULL, NULL),
   BindArgs("A", "x", "B", "x", G_BINDING_BIDIRECTIONAL,
            "custom_to", "custom_from", "ctx", "release")}

DispatchSetInputs ==
  {<<o, "x", v>> : o \in Objects, v \in ValuesOf("x")}

\* The instances allocated so far.
Allocated == Cardinality({b \in Links : binding[b].st # "none"})

NextDispatch ==
  \/ \E a \in DispatchBindInputs :
       dispatch.stack = <<>> /\ Allocated < MaxPair /\ Bind(a, FALSE)
  \/ \E o \in Objects : AppConnect(o)
  \/ \E i \in DispatchSetInputs : DispatchStart(i[1], i[2], i[3])
  \/ DispatchStep

SpecDispatch == Init /\ [][NextDispatch]_vars

\* SpecCycle: up to MaxLinks bindings at once over A.x, B.x and A.y, which
\* can be chained into the cycle A.x -> B.x -> A.y -> A.x, with a
\* bidirectional binding among them and no two bindings on the same pair of
\* properties; A.y has a narrower range than the other two.  The emission runs one handler at a time and, once started,
\* runs on (it is one synchronous call).
CycleBindInputs ==
  {BindArgs("A", "x", "B", "x", G_BINDING_DEFAULT, NULL, NULL, NULL, NULL),
   BindArgs("B", "x", "A", "y", G_BINDING_DEFAULT, NULL, NULL, NULL, NULL),
   BindArgs("A", "y", "A", "x", G_BINDING_DEFAULT, NULL, NULL, NULL, NULL),
   BindArgs("A", "x", "B", "x", G_BINDING_BIDIRECTIONAL,
            NULL, NULL, NULL, NULL)}

CycleSetInputs ==
  UNION {{<<op[1], op[2], v>> : v \in ValuesOf(op[2])} :
           op \in {<<"A", "x">>, <<"B", "x">>, <<"A", "y">>}}

\* No binding exists yet between the two properties a names.
NewPair(a) ==
  \A b \in Links :
    binding[b].st = "live" =>
      <<binding[b].source, binding[b].source_property,
        binding[b].target, binding[b].target_property>>
      # <<a.source, a.source_property, a.target, a.target_property>>

NextCycle ==
  \/ \E a \in CycleBindInputs :
       dispatch.stack = <<>> /\ NewPair(a) /\ Bind(a, FALSE)
  \/ \E i \in CycleSetInputs : DispatchStart(i[1], i[2], i[3])
  \/ DispatchStep

SpecCycle == Init /\ [][NextCycle]_vars /\ WF_vars(DispatchStep)

\* SpecGuard: up to MaxPair bindings between A.x and B.x, among them one
\* whose user transforms decline odd values; the application connects its
\* own handler and also writes A.y, which no binding watches.
GuardBindInputs ==
  {BindArgs("A", "x", "B", "x", G_BINDING_BIDIRECTIONAL,
            "declining_to", "declining_from", "ctx", "release"),
   BindArgs("A", "x", "B", "x", G_BINDING_BIDIRECTIONAL,
            NULL, NULL, NULL, NULL),
   BindArgs("B", "x", "A", "x", G_BINDING_DEFAULT, NULL, NULL, NULL, NULL)}

GuardSetInputs ==
  UNION {{<<op[1], op[2], v>> : v \in ValuesOf(op[2])} :
           op \in {<<"A", "x">>, <<"B", "x">>, <<"A", "y">>}}

NextGuard ==
  \/ \E a \in GuardBindInputs :
       dispatch.stack = <<>> /\ Allocated < MaxPair /\ Bind(a, FALSE)
  \/ \E o \in Objects : AppConnect(o)
  \/ \E i \in GuardSetInputs : DispatchStart(i[1], i[2], i[3])
  \/ DispatchStep

SpecGuard == Init /\ [][NextGuard]_vars

\* SpecLifecycle: up to MaxPair bindings exist at once, between the two
\* objects in either direction and on one object; the application removes
\* them, keeps references of its own and destroys the objects.  No property
\* is written.
LifecycleBindInputs ==
  {BindArgs(e[1], e[2], e[3], e[4], flags, NULL, NULL, NULL, NULL) :
     e \in {<<"A", "x", "B", "x">>, <<"B", "x", "A", "y">>,
            <<"A", "x", "A", "y">>},
     flags \in BindingFlags}

NextLifecycle ==
  \/ \E a \in LifecycleBindInputs : Allocated < MaxPair /\ Bind(a, FALSE)
  \/ \E o \in Objects : Destroy(o)
  \/ \E b \in Links : Unbind(b)
  \/ \E b \in Links : HolderRef(b)
  \/ \E b \in Links : HolderUnref(b)

SpecLifecycle == Init /\ [][NextLifecycle]_vars

\* SpecTransform: the default transforms are called with every value of
\* every type and a destination of every type.
TransformValues ==
  {IntValue(n) : n \in 0..MaxVal}
  \cup {StrValue(NULL), StrValue("a")}
  \cup {PtrValue(G_TYPE_OBJECT, o) : o \in {NULL} \cup Objects}
  \cup {PtrValue(G_TYPE_BINDING, NULL), PtrValue(G_TYPE_BINDING, "binding")}
  \cup {PtrValue(G_TYPE_APP, NULL), PtrValue(G_TYPE_APP, "handle")}

NextTransform ==
  \E fn \in {"default_transform_to", "default_transform_from"} :
    \E value_a \in TransformValues : \E type_b \in ValueTypes :
      TransformCall(fn, value_a, type_b)

SpecTransform == Init /\ [][NextTransform]_vars

\* SpecAuth: an application connects handlers to a GDBusAuthObserver and
\* the server asks it about peers.
NextAuth ==
  \/ \E kind \in HandlerKinds : ObserverConnect(kind)
  \/ \E stream \in Streams, credentials \in Credentials :
       Authorize(stream, credentials)

SpecAuth == Init /\ [][NextAuth]_vars

\* ---------------------------------------------------------------- claims
\* The binding b exists and still refers to both of its endpoints.
Bound(b) ==
  /\ binding[b].st = "live"
  /\ binding[b].source # NULL
  /\ binding[b].target # NULL

OneWay(b) == binding[b].flags = G_BINDING_DEFAULT
Bidirectional(b) == binding[b].flags = G_BINDING_BIDIRECTIONAL

DefaultTransforms(b) ==
  /\ binding[b].transform_s2t = "default_transform_to"
  /\ binding[b].transform_t2s = "default_transform_from"

CustomTransforms(b) ==
  /\ binding[b].transform_s2t = "custom_to"
  /\ binding[b].transform_t2s = "custom_from"

SourceType(b) == ParamSpecs[binding[b].source_property].value_type
TargetType(b) == ParamSpecs[binding[b].target_property].value_type
SameTyped(b) == SourceType(b) = TargetType(b)
IntTyped(b) == SourceType(b) = G_TYPE_INT /\ TargetType(b) = G_TYPE_INT

SourceValue(b) == val[binding[b].source][binding[b].source_property]
TargetValue(b) == val[binding[b].target][binding[b].target_property]

\* The last operation was an external write to the source (target)
\* property of b.
WroteSource(b) ==
  /\ last.op = "set"
  /\ last.obj = binding[b].source
  /\ last.prop = binding[b].source_property

WroteTarget(b) ==
  /\ last.op = "set"
  /\ last.obj = binding[b].target
  /\ last.prop = binding[b].target_property

\* C1, first half: once an external write of v to the source property of a
\* one-way binding with the default transform on same-typed properties has
\* completed, the target property holds v (v being a value the target
\* property can hold).
C1_TargetFollows ==
  \A b \in Links :
    (/\ Bound(b) /\ OneWay(b) /\ DefaultTransforms(b) /\ SameTyped(b)
     /\ WroteSource(b)
     /\ last.v \in ValuesOf(binding[b].target_property))
    => /\ TargetValue(b) = last.v
       /\ SourceValue(b) = last.v

\* C1, second half: an external write to the target property of a one-way
\* binding leaves the source property as it was: the binding has no handler
\* on the target side and writes nothing back.
C1_NoBackPropagation ==
  \A b \in Links :
    (Bound(b) /\ OneWay(b) /\ WroteTarget(b)')
    => /\ val'[binding[b].source][binding[b].source_property]
            = val[binding[b].source][binding[b].source_property]
       /\ last'.hops = <<>>
       /\ binding[b].target_notify = 0

F(v) == CallTransform("custom_to", v, ZeroValue(G_TYPE_INT)).value
G(v) == CallTransform("custom_from", v, ZeroValue(G_TYPE_INT)).value

HopsBy(b) == {i \in 1..Len(last.hops) : last.hops[i].by = b}

\* C3: for a single bidirectional binding whose transform accepts the value,
\* an external write to either bound property makes the binding write once,
\* to the opposite property, and never to the property that was written; the
\* reverse handler is run by the destination's notify and stopped by the
\* guard, and the dispatch ends.
C3_GuardOneHop ==
  \A b \in Links :
    (Bound(b) /\ Bidirectional(b) /\ last.op = "set" /\ last.declined = 0)
    => /\ last.done
       /\ ~binding[b].is_frozen
       /\ WroteSource(b) =>
            /\ Len(last.hops) = 1
            /\ last.hops[1].by = b
            /\ last.hops[1].obj = binding[b].target
            /\ last.hops[1].prop = binding[b].target_property
            /\ last.skipped >= 1
            /\ SourceValue(b) = last.v
       /\ WroteTarget(b) =>
            /\ Len(last.hops) = 1
            /\ last.hops[1].by = b
            /\ last.hops[1].obj = binding[b].source
            /\ last.hops[1].prop = binding[b].source_property
            /\ last.skipped >= 1
            /\ TargetValue(b) = last.v

\* Witness of C3: a write to the target of a bidirectional binding was
\* propagated once to the source, and the source's notify reached the
\* binding's handler while the guard was set.
C3_Witness ==
  \E b \in Links :
    /\ Bound(b) /\ Bidirectional(b)
    /\ WroteTarget(b)
    /\ Len(last.hops) = 1
    /\ last.hops[1].obj = binding[b].source
    /\ last.skipped = 1
    /\ last.done

Unconvertible(b) ==
  /\ ~TypeIsA(SourceType(b), TargetType(b))
  /\ ~ValueTypeCompatible(SourceType(b), TargetType(b))
  /\ ~ValueTypeTransformable(SourceType(b), TargetType(b))

\* C5: a write to the source of a default binding between unconvertible
\* types reports a transform failure, writes nothing to the target, which
\* keeps its prior value, and leaves the binding subscribed.
C5_FailureContained ==
  \A b \in Links :
    (Bound(b) /\ DefaultTransforms(b) /\ Unconvertible(b) /\ WroteSource(b)')
    => /\ val'[binding[b].target][binding[b].target_property]
            = val[binding[b].target][binding[b].target_property]
       /\ last'.hops = <<>>
       /\ last'.declined = 1
       /\ Bound(b)'

C5_TransformFailure == [][C5_FailureContained]_vars

\* C6: whatever the order of unbind and endpoint destructions, a binding is
\* finalized once, its release callback runs once, and no teardown code runs
\* on the instance after it was freed; the holder of a reference never
\* finds the instance freed.
C6_TeardownOnce ==
  \A b \in Links :
    /\ uaf[b] = 0
    /\ finalized[b] <= 1
    /\ released[b] <= 1
    /\ binding[b].st = "freed" => finalized[b] = 1
    /\ holder[b] = "ref" => binding[b].st = "live"

\* A handler or weak reference of b is left on the object o.
SubscribedOn(b, o) ==
  \/ \E i \in 1..Len(handlers[o]) : handlers[o][i].data = b
  \/ \E i \in 1..Len(weak_refs[o]) : weak_refs[o][i] = b

\* C7, the destruction step: every binding the destroyed object took part in
\* has lost its handlers and weak references on every object, and refers to
\* no object any more.
C7_TornInSameStep ==
  last.op = "destroy" =>
    \A i \in 1..Len(last.torn) :
      /\ \A o \in Objects : ~SubscribedOn(last.torn[i].b, o)
      /\ binding[last.torn[i].b].source = NULL
      /\ binding[last.torn[i].b].target = NULL

\* C7, afterwards: handlers and weak references exist only for bindings both
\* of whose endpoints are alive, no binding refers to a destroyed object,
\* and a write never reaches one: with or without a binding left, every
\* write a dispatch makes goes to a live object.
C7_NoDanglingEndpoint ==
  /\ \A b \in Links : \A o \in Objects :
       SubscribedOn(b, o) =>
         /\ Bound(b)
         /\ alive[o]
         /\ o \in {binding[b].source, binding[b].target}
         /\ alive[binding[b].source] /\ alive[binding[b].target]
  /\ \A b \in Links :
       /\ binding[b].source # NULL => alive[binding[b].source]
       /\ binding[b].target # NULL => alive[binding[b].target]
  /\ \A o \in Objects : ~alive[o] => handlers[o] = <<>> /\ weak_refs[o] = <<>>
  /\ \A i \in 1..Len(last.hops) : alive[last.hops[i].obj]
  /\ (last.op = "set" /\ \A b \in Links : ~Bound(b)) => last.hops = <<>>

\* C7: endpoint destruction safety.
C7_DestructionSafety == C7_TornInSameStep /\ C7_NoDanglingEndpoint

\* Witness of C7: the source of a bidirectional binding between two objects
\* was destroyed, and the target, still alive, has no handler left.
C7_Witness ==
  /\ last.op = "destroy"
  /\ \E i \in 1..Len(last.torn) :
       /\ last.torn[i].flags = G_BINDING_BIDIRECTIONAL
       /\ last.torn[i].source = last.obj
       /\ last.torn[i].target # last.obj
       /\ alive[last.torn[i].target]
       /\ handlers[last.torn[i].target] = <<>>
       /\ weak_refs[last.torn[i].target] = <<>>

\* C8: a binding whose creator holds nothing but the pointer bind returned
\* does not outlive an endpoint: while it lives both endpoints are alive,
\* and the destruction that notifies it finalizes it and runs its release
\* callback in that step.
C8_DiesWithFirstEndpoint ==
  /\ \A b \in Links :
       (binding[b].st = "live" /\ holder[b] = "handle")
       => /\ binding[b].source # NULL /\ alive[binding[b].source]
          /\ binding[b].target # NULL /\ alive[binding[b].target]
  /\ last.op = "destroy" =>
       \A i \in 1..Len(last.torn) :
         holder[last.torn[i].b] = "handle"
         => /\ binding[last.torn[i].b].st = "freed"
            /\ finalized[last.torn[i].b] = 1
            /\ released[last.torn[i].b] =
                 (IF last.torn[i].notify # NULL THEN 1 ELSE 0)

\* Witness of C8: the destruction of the target finalized a binding with a
\* release callback that its creator never unbound nor referenced, while
\* the source is still alive.
C8_Witness ==
  /\ last.op = "destroy"
  /\ \E i \in 1..Len(last.torn) :
       /\ holder[last.torn[i].b] = "handle"
       /\ last.torn[i].target = last.obj
       /\ last.torn[i].source # last.obj
       /\ alive[last.torn[i].source]
       /\ last.torn[i].notify # NULL
       /\ released[last.torn[i].b] = 1
       /\ finalized[last.torn[i].b] = 1

\* The state a binding adds to: the instances, the handlers, the weak
\* references and the registry of every object.
LinkState == <<binding, handlers, weak_refs, qdata, released, finalized>>

\* C9, the rejected call: a bind naming the same property of the same
\* object as source and target, with either direction, returns no instance
\* but the warning of line 797, and leaves every binding, handler, weak
\* reference and registry entry as it was.
C9_RejectedCallChangesNothing ==
  (last'.op = "bind" /\ SameProperty(last'.args))
  => /\ last'.link = 0
     /\ last'.err = "same-property"
     /\ UNCHANGED LinkState

\* C9, the consequence and the limit of the rule: no binding ever has its
\* source object and property equal to its target object and property, and
\* a bind between two different properties of one object is never refused
\* as a self-binding.
C9_NoSelfBinding ==
  /\ \A b \in Links :
       binding[b].st = "live" /\ binding[b].source # NULL
       => ~(/\ binding[b].source = binding[b].target
            /\ binding[b].source_property = binding[b].target_property)
  /\ (/\ last.op = "bind"
      /\ last.args.source = last.args.target
      /\ last.args.source_property # last.args.target_property)
     => last.err # "same-property"

\* C9: self-binding is rejected.
C9_SelfBindingRejected ==
  []C9_NoSelfBinding /\ [][C9_RejectedCallChangesNothing]_vars

\* Witness of C9: a bidirectional bind of A.x to itself, a property that
\* passes every other check, was refused, and so was nothing else: a bind
\* between two properties of A has returned an instance before.
C9_Witness ==
  /\ last.op = "bind"
  /\ last.args.source = "A" /\ last.args.target = "A"
  /\ last.args.source_property = "x" /\ last.args.target_property = "x"
  /\ last.args.flags = G_BINDING_BIDIRECTIONAL
  /\ last.link = 0
  /\ last.err = "same-property"
  /\ \E b \in Links :
       /\ binding[b].st = "live"
       /\ binding[b].source = "A" /\ binding[b].target = "A"

\* The property name is installed on the class of the object.
HasProperty(o, name) == name \in ClassProperties[o]

\* The condition under which bind is to return an instance, from the flags
\* of the two properties and the direction.
C10_Accepts(a) ==
  /\ ~(a.source = a.target /\ a.source_property = a.target_property)
  /\ HasProperty(a.source, a.source_property)
  /\ HasProperty(a.target, a.target_property)
  /\ ParamSpecs[a.source_property].readable
  /\ ParamSpecs[a.target_property].writable
  /\ ~ParamSpecs[a.target_property].construct_only
  /\ (a.flags = G_BINDING_BIDIRECTIONAL) =>
       /\ ParamSpecs[a.source_property].writable
       /\ ~ParamSpecs[a.source_property].construct_only
       /\ ParamSpecs[a.target_property].readable

\* C10: bind returns an instance, bound as asked, if and only if the call is
\* not a self-binding, both properties exist, the source is readable, the
\* target writable and not construct-only and, for a bidirectional binding,
\* the source is writable and not construct-only and the target readable;
\* every other call returns NULL with a warning.
C10_BindIffFlagsAllow ==
  last.op = "bind" =>
    /\ (last.link # 0) <=> C10_Accepts(last.args)
    /\ (last.link = 0) <=> (last.err # "ok")
    /\ last.link # 0 =>
         /\ binding[last.link].st = "live"
         /\ binding[last.link].source = last.args.source
         /\ binding[last.link].source_property = last.args.source_property
         /\ binding[last.link].target = last.args.target
         /\ binding[last.link].target_property = last.args.target_property
         /\ binding[last.link].flags = last.args.flags

\* Witness of C10: a one-way bind from a read-only source to a write-only
\* target has returned an instance.
C10_Witness ==
  /\ last.op = "bind"
  /\ last.link # 0
  /\ last.args.flags = G_BINDING_DEFAULT
  /\ last.args.source_property = "ro"
  /\ last.args.target_property = "wo"
  /\ binding[last.link].st = "live"

\* Everything but the record of the last call.
ProgramState ==
  <<alive, val, handlers, weak_refs, qdata, binding, released, finalized,
    uaf, holder, crashed, strong, observer, auth, dispatch, xform>>

\* C11: a bind that fails a construction-time check (unknown property, not
\* readable, not writable, the same property twice) returns NULL and leaves
\* the whole state as it was: no binding was created, no handler or weak
\* reference was added to either object, no registry entry and no property
\* value changed.
C11_FailedBindChangesNothing ==
  (last'.op = "bind" /\ last'.err # "ok")
  => /\ last'.link = 0
     /\ last'.err \in {"same-property", "no-source-property",
                       "source-not-readable", "source-not-writable",
                       "no-target-property", "target-not-writable",
                       "target-not-readable"}
     /\ UNCHANGED ProgramState

C11_AtomicFailure == [][C11_FailedBindChangesNothing]_vars

\* Witness of C11: a bind was refused at the last of the checks (the target
\* of a bidirectional binding is not readable), while no binding exists and
\* a slot for a new instance is free.
C11_Witness ==
  /\ last.op = "bind"
  /\ last.err = "target-not-readable"
  /\ last.link = 0
  /\ \A b \in Links : binding[b].st = "none"
  /\ \A o \in Objects : handlers[o] = <<>> /\ weak_refs[o] = <<>>

\* C12, the bind step: a successful bind changes no property value and makes
\* no write.
C12_NoInitialPush ==
  (last'.op = "bind" /\ last'.link # 0)
  => /\ val' = val
     /\ last'.hops = <<>>

\* C12, afterwards: while a binding exists, the value of its target property
\* changes only in a step that is an external write to its source property
\* or to the target property itself; whatever the source held before the
\* bind stays where it is until then.
C12_TargetChangesOnlyOnWrite ==
  \A b \in Links :
    (/\ Bound(b) /\ Bound(b)'
     /\ val'[binding[b].target][binding[b].target_property]
          # val[binding[b].target][binding[b].target_property])
    => /\ last'.op = "set"
       /\ \/ (last'.obj = binding[b].source
              /\ last'.prop = binding[b].source_property)
          \/ (last'.obj = binding[b].target
              /\ last'.prop = binding[b].target_property)

\* C12: no initial push and no retroactive propagation.
C12_NoPushAtBind ==
  [][C12_NoInitialPush /\ C12_TargetChangesOnlyOnWrite]_vars

\* Witness of C12: the source was given the value MaxVal before the bind;
\* the bind of it to a same-typed property of the other object has returned
\* an instance and the target still holds 0.
C12_Witness ==
  /\ last.op = "bind"
  /\ last.link # 0
  /\ Bound(last.link) /\ IntTyped(last.link) /\ DefaultTransforms(last.link)
  /\ binding[last.link].source # binding[last.link].target
  /\ SourceValue(last.link) = IntValue(MaxVal)
  /\ TargetValue(last.link) = IntValue(0)

\* C13, the unbind step: the creator's g_object_unref on a binding with both
\* endpoints alive finalizes it once, leaves none of its handlers and weak
\* references on any object, and changes neither a property value nor the
\* liveness of an object.
C13_UnbindStep ==
  last'.op = "unbind" =>
    /\ Bound(last'.link)
    /\ alive[binding[last'.link].source] /\ alive[binding[last'.link].target]
    /\ binding'[last'.link].st = "freed"
    /\ finalized'[last'.link] = 1
    /\ uaf'[last'.link] = 0
    /\ \A o \in Objects :
         /\ \A i \in 1..Len(handlers'[o]) : handlers'[o][i].data # last'.link
         /\ \A i \in 1..Len(weak_refs'[o]) : weak_refs'[o][i] # last'.link
    /\ val' = val
    /\ alive' = alive

\* C13, afterwards: nothing touches a binding its creator has released and
\* that is finalized: no write of a later dispatch is made by it, no
\* destruction runs weak_unbind on it, and it is not finalized, released or
\* used again.
C13_ReleasedStaysUntouched ==
  \A b \in Links :
    (holder[b] = "released" /\ binding[b].st = "freed")
    => /\ binding'[b] = binding[b]
       /\ finalized'[b] = finalized[b]
       /\ released'[b] = released[b]
       /\ uaf'[b] = uaf[b]
       /\ \A i \in 1..Len(last'.hops) : last'.hops[i].by # b
       /\ \A i \in 1..Len(last'.torn) : last'.torn[i].b # b

\* C13: explicit unbind.
C13_ExplicitUnbind == [][C13_UnbindStep /\ C13_ReleasedStaysUntouched]_vars

\* Witness of C13: after the unbind of a binding with a release callback,
\* one of its former endpoints was destroyed, the other is alive: the
\* destruction found no weak reference and the binding is as unbind left it.
C13_Witness ==
  /\ last.op = "destroy"
  /\ last.torn = <<>>
  /\ \E o \in Objects : alive[o]
  /\ \E b \in Links :
       /\ holder[b] = "released"
       /\ binding[b].st = "freed"
       /\ finalized[b] = 1
       /\ released[b] = 1
       /\ uaf[b] = 0

\* C14: a binding holds no owning reference on its source or target: bind,
\* propagation, unbind and teardown leave the owning references on every
\* object as they were, none exists at any time, and so the release of an
\* object by its owners destroys it whatever bindings refer to it.
C14_NoOwningReference ==
  /\ \A o \in Objects : strong[o] = 0
  /\ \A b \in Links : \A o \in Objects :
       (Bound(b) /\ o \in {binding[b].source, binding[b].target})
       => LastReferenceDropped(o)

\* Witness of C14: an object was destroyed while a bidirectional binding,
\* of which the creator held a reference of its own, had it as its source.
C14_Witness ==
  /\ last.op = "destroy"
  /\ \E i \in 1..Len(last.torn) :
       /\ last.torn[i].source = last.obj
       /\ last.torn[i].flags = G_BINDING_BIDIRECTIONAL
       /\ holder[last.torn[i].b] = "ref"
       /\ binding[last.torn[i].b].st = "live"
  /\ \A o \in Objects : strong[o] = 0

\* The bindings in the list the qdata of o points at.
StoredRegistry(o) == {qdata[o].head[i] : i \in 1..Len(qdata[o].head)}

\* The live bindings that have o as source or as target.
LinksOf(o) ==
  {b \in Links : binding[b].st = "live"
                 /\ o \in {binding[b].source, binding[b].target}}

\* C15: in every state the registry entry stored on a live object holds
\* exactly the live bindings that have the object as source or target, and
\* it neither is nor leads to a freed list node.
C15_RegistryConsistent ==
  \A o \in Objects :
    alive[o] =>
      /\ ~qdata[o].dangling
      /\ ~qdata[o].reused
      /\ StoredRegistry(o) = LinksOf(o)

\* The binding b has the user transforms that decline odd values.
DecliningTransforms(b) ==
  /\ binding[b].transform_s2t = "declining_to"
  /\ binding[b].transform_t2s = "declining_from"

\* The handler of b on the given side is connected and its weak reference
\* is in place.
StillSubscribed(b, o, id) ==
  /\ \E i \in 1..Len(handlers[o]) :
       handlers[o][i].id = id /\ handlers[o][i].data = b
  /\ \E i \in 1..Len(weak_refs[o]) : weak_refs[o][i] = b

\* C16, the declined write: a write to the source (or, for a bidirectional
\* binding, to the target) whose value the user transform declines makes no
\* write to the other property, which keeps its value; no handler activation
\* meets a set guard, the guard is clear, and the binding keeps its handlers
\* and weak references.
C16_DeclinedWriteContained ==
  \A b \in Links :
    (Bound(b) /\ DecliningTransforms(b) /\ last'.op = "set"
     /\ last'.v.v_int % 2 = 1)
    => /\ (last'.obj = binding[b].source)
            => /\ val'[binding[b].target] = val[binding[b].target]
               /\ last'.declined = 1
       /\ (last'.obj = binding[b].target /\ Bidirectional(b))
            => /\ val'[binding[b].source] = val[binding[b].source]
               /\ last'.declined = 1
       /\ last'.hops = <<>>
       /\ last'.skipped = 0
       /\ binding' = binding
       /\ ~binding'[b].is_frozen
       /\ UNCHANGED <<handlers, weak_refs>>

\* C16, the accepted write: a write to the source whose value the transform
\* accepts is propagated, whatever was declined before, and the binding is
\* subscribed in every state.
C16_AcceptedWritePropagated ==
  \A b \in Links :
    (Bound(b) /\ DecliningTransforms(b))
    => /\ StillSubscribed(b, binding[b].source, binding[b].source_notify)
       /\ (WroteSource(b) /\ last.v.v_int % 2 = 0)
            => /\ TargetValue(b) = last.v
               /\ Len(last.hops) = 1
               /\ last.declined = 0

\* C16: a declining custom transform.
C16_CustomDecline ==
  []C16_AcceptedWritePropagated /\ [][C16_DeclinedWriteContained]_vars

\* Witness of C16: the transform declined the value 1 written to the
\* source; the target still holds MaxVal - MaxVal % 2, the even value an
\* earlier write propagated.
C16_Witness ==
  \E b \in Links :
    /\ Bound(b) /\ DecliningTransforms(b)
    /\ WroteSource(b)
    /\ last.v = IntValue(1)
    /\ last.declined = 1
    /\ last.hops = <<>>
    /\ SourceValue(b) = IntValue(1)
    /\ TargetValue(b) = IntValue(MaxVal - (MaxVal % 2))
    /\ TargetValue(b) # IntValue(0)

\* C17: with no handler connected to the observer, authorize returns TRUE
\* (the peer is authorized) for every stream and every credentials,
\* including none; only the class handler ran.
C17_DefaultAllows ==
  (auth.called /\ auth.hs = <<>>)
  => /\ auth.result = TRUE
     /\ auth.ran = <<>>
     /\ auth.default_ran

\* Witness of C17: authorize was called without credentials on an observer
\* without handlers and returned TRUE.
C17_Witness ==
  /\ auth.called
  /\ auth.hs = <<>>
  /\ observer = <<>>
  /\ auth.credentials = NULL
  /\ auth.result = TRUE

\* What the i-th handler connected at the time of the last authorize call
\* returns for the stream and credentials of that call.
WouldReturn(i) == HandlerReturn(auth.hs[i], auth.stream, auth.credentials)

\* The handlers that deny the peer of the last call.
Deniers == {i \in 1..Len(auth.hs) : ~WouldReturn(i)}

\* C18: the handlers run in the order of their connection; if one of them
\* denies, authorize returns FALSE, the emission has stopped at the first
\* that denied, and neither a later handler nor the class handler ran;
\* authorize returns TRUE only if every handler that ran returned TRUE.
C18_DenyWins ==
  auth.called =>
    /\ Len(auth.ran) <= Len(auth.hs)
    /\ \A i \in 1..Len(auth.ran) : auth.ran[i] = WouldReturn(i)
    /\ Deniers # {} =>
         /\ auth.result = FALSE
         /\ Len(auth.ran) \in Deniers
         /\ \A i \in Deniers : Len(auth.ran) <= i
         /\ ~auth.default_ran
    /\ auth.result = TRUE =>
         /\ \A i \in 1..Len(auth.ran) : auth.ran[i] = TRUE
         /\ Len(auth.ran) = Len(auth.hs)
         /\ auth.default_ran

\* Witness of C18: of three handlers the second denied; the first ran and
\* allowed, the third, which would have allowed, and the class handler did
\* not run, and authorize returned FALSE.
C18_Witness ==
  /\ auth.called
  /\ auth.hs = <<"allow", "deny", "allow">>
  /\ auth.ran = <<TRUE, FALSE>>
  /\ ~auth.default_ran
  /\ auth.result = FALSE

\* The activations of the handlers of link b that have passed the guard and
\* whose g_object_set_property call has not returned yet.
InFlight(b) ==
  {i \in 1..Len(dispatch.stack) : dispatch.stack[i].caller = b}

\* C19: in every state of a dispatch, nested through several links and
\* handlers of the application included, each link has at most one
\* propagation in flight, both directions counted together, and its guard
\* is set exactly while it has one.
C19_OneInFlight ==
  \A b \in Links :
    /\ Cardinality(InFlight(b)) <= 1
    /\ binding[b].st = "live" =>
         (binding[b].is_frozen <=> InFlight(b) # {})

\* Two links are in flight at once inside an emission on an object that also
\* has an application handler, and the guard has already stopped a handler.
C19_Witness ==
  /\ \E b, c \in Links :
       /\ b # c
       /\ Bound(b) /\ Cardinality(InFlight(b)) = 1
       /\ Bound(c) /\ Cardinality(InFlight(c)) = 1
       /\ Bidirectional(b)
  /\ \E o \in Objects : \E i \in 1..Len(handlers[o]) :
        handlers[o][i].cb = "on_app_notify"
  /\ last.skipped > 0
  /\ Len(dispatch.stack) >= 3
\* The step is an external write to property p of object o.
SetStep(o, p) ==
  /\ last'.op = "set"
  /\ last'.obj = o
  /\ last'.prop = p

\* Link b did nothing in the step that wrote property p of object o: it made
\* no write, its transform declined nothing, the guard stopped none of its
\* handlers, its guard flag is as before, and its bound properties hold
\* what they held (but for the written property itself).
LinkIdle(b, o, p) ==
  /\ {i \in 1..Len(last'.hops) : last'.hops[i].by = b} = {}
  /\ last'.declined = 0
  /\ last'.skipped = 0
  /\ binding'[b] = binding[b]
  /\ <<binding[b].source, binding[b].source_property>> # <<o, p>>
       => val'[binding[b].source][binding[b].source_property] = SourceValue(b)
  /\ <<binding[b].target, binding[b].target_property>> # <<o, p>>
       => val'[binding[b].target][binding[b].target_property] = TargetValue(b)

\* The notify for property p of object o is one the claim speaks of: o is
\* the source and p is not the watched source property, or the link is
\* bidirectional, o is the target and p is not the watched target property.
OtherProperty(b, o, p) ==
  \/ o = binding[b].source /\ p # binding[b].source_property
  \/ /\ Bidirectional(b)
     /\ o = binding[b].target /\ p # binding[b].target_property

\* A handler of link b watches property p of object o.
Watched(b, o, p) ==
  \/ o = binding[b].source /\ p = binding[b].source_property
  \/ /\ Bidirectional(b)
     /\ o = binding[b].target /\ p = binding[b].target_property

\* C20 as stated: a change notification for a property of the source other
\* than the watched source property (for a bidirectional link also for a
\* property of the target other than the watched target property) makes
\* the link read, transform and write nothing.  It fails for a
\* bidirectional link between two properties of one object: the notify for
\* the watched target property is a notify for a property of the source
\* other than the watched source property, and on_target_notify, connected
\* to the same object, propagates it.
C20_AnyOtherPropertyStep ==
  \A b \in Links : \A o \in Objects : \A p \in PropNames :
    (Bound(b) /\ SetStep(o, p) /\ OtherProperty(b, o, p))
    => LinkIdle(b, o, p)

C20_AnyOtherProperty == [][C20_AnyOtherPropertyStep]_vars

\* C20, amended: a change notification for a property that no handler of
\* the link watches on that object (not the source property on the source
\* and, for a bidirectional link, not the target property on the target)
\* makes the link read, transform and write nothing: both bound values and
\* the guard flag are unchanged.
C20_UnwatchedPropertyStep ==
  \A b \in Links : \A o \in Objects : \A p \in PropNames :
    (/\ Bound(b) /\ SetStep(o, p)
     /\ o \in {binding[b].source, binding[b].target}
     /\ ~Watched(b, o, p))
    => LinkIdle(b, o, p)

C20_UnwatchedProperty == [][C20_UnwatchedPropertyStep]_vars

\* Witness of C20: another property of the source of a bidirectional link
\* between two objects was written while the bound values differ, and the
\* link made no write.
C20_Witness ==
  \E b \in Links :
    /\ Bound(b) /\ Bidirectional(b)
    /\ binding[b].source # binding[b].target
    /\ last.op = "set" /\ last.done
    /\ last.obj = binding[b].source
    /\ last.prop # binding[b].source_property
    /\ last.hops = <<>>
    /\ SourceValue(b) # TargetValue(b)
    /\ ~binding[b].is_frozen
\* The value v satisfies the declared constraints of property p.
InBounds(p, v) == ParamValueValidate(p, v) = v

\* What a propagation of link b writes when its origin holds v: the result
\* of the transform of that direction, coerced to the destination.
Coerced(b, forward, v) ==
  IF forward
  THEN ParamValueValidate(binding[b].target_property,
         CallTransform(binding[b].transform_s2t, v,
                       ZeroValue(TargetType(b))).value)
  ELSE ParamValueValidate(binding[b].source_property,
         CallTransform(binding[b].transform_t2s, v,
                       ZeroValue(SourceType(b))).value)

\* C21, every state: each property holds a value within its declared
\* bounds, whatever the propagations wrote.
C21_WithinBounds ==
  \A o \in Objects : \A p \in ClassProperties[o] : InBounds(p, val[o][p])

\* C21, the propagation step: an external write of v to a bound property
\* makes the link write once, the transform result clamped to the bounds of
\* the destination, with its guard set at the time of the write and clear
\* when the write has returned; the origin keeps v as it was written.
C21_CoercedWriteStep ==
  \A b \in Links :
    (Bound(b) /\ last'.op = "set"
     /\ Watched(b, last'.obj, last'.prop))
    => LET forward == /\ last'.obj = binding[b].source
                      /\ last'.prop = binding[b].source_property
           dest == IF forward
                   THEN <<binding[b].target, binding[b].target_property>>
                   ELSE <<binding[b].source, binding[b].source_property>>
       IN /\ Len(last'.hops) = 1
          /\ last'.hops[1].by = b
          /\ <<last'.hops[1].obj, last'.hops[1].prop>> = dest
          /\ last'.hops[1].v = Coerced(b, forward, last'.v)
          /\ last'.hops[1].frozen
          /\ val'[dest[1]][dest[2]] = Coerced(b, forward, last'.v)
          /\ InBounds(dest[2], val'[dest[1]][dest[2]])
          /\ val'[last'.obj][last'.prop] = last'.v
          /\ ~binding'[b].is_frozen

C21_CoercedWrite == []C21_WithinBounds /\ [][C21_CoercedWriteStep]_vars

\* Witness of C21: the user transform of a link returned MaxVal + 1 for the
\* MaxVal written to the source; the target got MaxVal, written with the
\* guard set, and the source still holds MaxVal.
C21_Witness ==
  \E b \in Links :
    /\ Bound(b) /\ CustomTransforms(b) /\ WroteSource(b)
    /\ last.v = IntValue(MaxVal)
    /\ CallTransform(binding[b].transform_s2t, last.v,
                     ZeroValue(TargetType(b))).value = IntValue(MaxVal + 1)
    /\ Len(last.hops) = 1 /\ last.hops[1].frozen
    /\ last.hops[1].v = IntValue(MaxVal)
    /\ TargetValue(b) = IntValue(MaxVal)
    /\ SourceValue(b) = IntValue(MaxVal)
    /\ ~binding[b].is_frozen
\* The types of the last default transform call: the source is (a subtype
\* of) the destination or assignment-compatible with it, or a conversion
\* between them is registered.
CopyPair ==
  \/ TypeIsA(xform.value_a.g_type, xform.value_b.g_type)
  \/ ValueTypeCompatible(xform.value_a.g_type, xform.value_b.g_type)

ConvertPair ==
  /\ ~CopyPair
  /\ <<xform.value_a.g_type, xform.value_b.g_type>> \in RegisteredTransforms

\* C22: for identical, related, assignment-compatible or convertible type
\* pairs the default transform (either direction) returns success with a
\* direct copy of the source in the destination when the source type is (a
\* subtype of) the destination type or compatible with it; otherwise
\* success with the converted value when the registered conversion
\* succeeds, and failure with a warning and the destination as
\* g_value_init left it when the conversion fails at run time.
C22_DefaultTransform ==
  xform.called =>
    /\ CopyPair =>
         /\ xform.res /\ ~xform.warned
         /\ xform.value.g_type = xform.value_b.g_type
         /\ xform.value.v_int = xform.value_a.v_int
         /\ xform.value.v_pointer = xform.value_a.v_pointer
    /\ (ConvertPair /\ xform.value_a.g_type = G_TYPE_INT) =>
         /\ xform.res /\ ~xform.warned
         /\ xform.value = StrValue(ToString(xform.value_a.v_int))
    /\ (ConvertPair /\ xform.value_a.g_type = G_TYPE_APP) =>
         /\ ~xform.res /\ xform.warned
         /\ xform.value = ZeroValue(xform.value_b.g_type)

\* Witness of C22: default_transform_from was called on an AppType value
\* with a gint destination; the registered conversion failed, the call
\* warned and returned FALSE.
C22_Witness ==
  /\ xform.called
  /\ xform.fn = "default_transform_from"
  /\ xform.value_a = PtrValue(G_TYPE_APP, "handle")
  /\ xform.value_b.g_type = G_TYPE_INT
  /\ ConvertPair
  /\ ~xform.res /\ xform.warned

\* The other cases of C22 are reached too: a GBinding copied into a GObject
\* value, and MaxVal converted to the string that prints it.
C22_WitnessCopy ==
  /\ xform.called /\ xform.res
  /\ xform.value_a = PtrValue(G_TYPE_BINDING, "binding")
  /\ xform.value = PtrValue(G_TYPE_OBJECT, "binding")

C22_WitnessConvert ==
  /\ xform.called /\ xform.res
  /\ xform.value_a = IntValue(MaxVal)
  /\ xform.value = StrValue(ToString(MaxVal))
\* The last step destroyed an endpoint of link b while the creator of b held
\* a reference of its own, and the other endpoint o of b is still alive.
TornWhileHeld(b, o) ==
  /\ last.op = "destroy"
  /\ holder[b] = "ref"
  /\ binding[b].st = "live"
  /\ alive[o]
  /\ \E i \in 1..Len(last.torn) :
       /\ last.torn[i].b = b
       /\ o \in {last.torn[i].source, last.torn[i].target}

\* C23, the accessors: after the destruction of one endpoint of a link that
\* its creator still references, the source accessor and the target
\* accessor both return no object, also for the endpoint that is alive.
C23_AccessorsCleared ==
  \A b \in Links : \A o \in Objects :
    TornWhileHeld(b, o)
    => /\ g_binding_get_source(b) = NULL
       /\ g_binding_get_target(b) = NULL

\* C23: when one endpoint of a link is destroyed while a holder keeps the
\* link referenced, both accessors return no object afterwards and the link
\* is absent from the registry entry of the surviving endpoint.  The
\* accessors are cleared, but the registry entry of the survivor is left
\* pointing at the list node that held the link, which g_list_remove freed.
C23_TeardownInvalidatesBoth ==
  \A b \in Links : \A o \in Objects :
    TornWhileHeld(b, o)
    => /\ g_binding_get_source(b) = NULL
       /\ g_binding_get_target(b) = NULL
       /\ ~qdata[o].dangling
       /\ b \notin StoredRegistry(o)
\* The notify handlers of link b connected to object o with callback cb, and
\* the weak references (destruction hooks) of b on o.
Subscriptions(b, o, cb) ==
  {i \in 1..Len(handlers[o]) :
     handlers[o][i].data = b /\ handlers[o][i].cb = cb}

Hooks(b, o) == {i \in 1..Len(weak_refs[o]) : weak_refs[o][i] = b}

\* The endpoint roles (source, target) object o has in link b.
Roles(b, o) ==
  (IF binding[b].source = o THEN 1 ELSE 0)
  + (IF binding[b].target = o THEN 1 ELSE 0)

\* C24: in every quiescent state a live link with both endpoints alive has
\* exactly one forward subscription, on its source; exactly one backward
\* subscription, on its target, if it is bidirectional, and none if it is
\* one-way; a destruction hook on its source and on its target; and no
\* subscription or hook on any other object.  A link that is not live, or
\* whose endpoints were cleared, has none at all.
C24_Subscriptions ==
  \A b \in Links : \A o \in Objects :
    IF Bound(b)
    THEN /\ alive[binding[b].source] /\ alive[binding[b].target]
         /\ Cardinality(Subscriptions(b, o, "on_source_notify"))
              = (IF o = binding[b].source THEN 1 ELSE 0)
         /\ Cardinality(Subscriptions(b, o, "on_target_notify"))
              = (IF o = binding[b].target /\ Bidirectional(b) THEN 1 ELSE 0)
         /\ Cardinality(Hooks(b, o)) = Roles(b, o)
    ELSE ~SubscribedOn(b, o)

\* Witness of C24: two links are live between the two objects, one of them
\* bidirectional, the other one-way with B as its source.
C24_Witness ==
  /\ \E b, c \in Links :
       /\ b # c
       /\ Bound(b) /\ binding[b].source # binding[b].target
       /\ Bound(c) /\ binding[c].source # binding[c].target
       /\ Bidirectional(b)
       /\ OneWay(c) /\ binding[c].source = "B"
  /\ last.op = "bind" /\ last.link # 0
\* The endpoints, other than the destroyed object, of the links whose
\* weak_unbind ran in the last destruction.
OtherEndpoints ==
  UNION {{last.torn[i].source, last.torn[i].target} :
           i \in 1..Len(last.torn)} \ {last.obj}

\* C25, the calls: the teardown run by the destruction of an object makes
\* no g_signal_handler_disconnect, g_object_weak_unref or
\* remove_binding_qdata call on that object, whatever links it has (a link
\* with both endpoints on it included); the calls it makes are on the other
\* endpoint of a link, which is alive.
C25_NoCallOnDestroyed ==
  last.op = "destroy" =>
    /\ \A c \in last.touched :
         /\ c[2] # last.obj
         /\ c[2] # NULL => (c[2] \in OtherEndpoints /\ alive[c[2]])
    /\ \A i \in 1..Len(last.torn) :
         binding[last.torn[i].b].st = "live"
         => /\ binding[last.torn[i].b].source = NULL
            /\ binding[last.torn[i].b].target = NULL

\* C25, the properties: the destruction step writes no property of a
\* surviving object and makes no propagation.
C25_NoPropertyAccessStep ==
  last'.op = "destroy" =>
    /\ last'.hops = <<>>
    /\ \A o \in Objects \ {last'.obj} : val'[o] = val[o]

C25_TeardownNeverReenters ==
  []C25_NoCallOnDestroyed /\ [][C25_NoPropertyAccessStep]_vars

\* Witness of C25: the destroyed object had a link with both endpoints on
\* it and a link to an object that is still alive, on which the teardown
\* unsubscribed, removed the destruction hook and updated the registry.
C25_Witness ==
  /\ last.op = "destroy"
  /\ \E i \in 1..Len(last.torn) :
       last.torn[i].source = last.obj /\ last.torn[i].target = last.obj
  /\ \E i \in 1..Len(last.torn) : \E o \in Objects \ {last.obj} :
       /\ last.torn[i].source = o
       /\ last.torn[i].flags = G_BINDING_DEFAULT
       /\ alive[o]
       /\ {<<"g_signal_handler_disconnect", o>>, <<"g_object_weak_unref", o>>,
           <<"remove_binding_qdata", o>>} \subseteq last.touched
\* The propagations nested in one another: the emissions on the stack that
\* were started by the write of a link.
NestedPropagations ==
  {i \in 1..Len(dispatch.stack) : dispatch.stack[i].caller # 0}

\* C26, the nesting: whatever links exist (chains and cycles over several
\* links, one-way and bidirectional), no link propagates while its guard is
\* set, so each link has at most one propagation on the stack and the
\* propagations nest no deeper than the number of live links.
C26_DepthBound ==
  /\ \A b \in Links : Cardinality(InFlight(b)) <= 1
  /\ Cardinality(NestedPropagations)
       <= Cardinality({b \in Links : Bound(b)})
  /\ dispatch.steps < MaxDispatchSteps

C27_GuardClearWhenIdle ==
  \A b \in Links :
    /\ InFlight(b) = {} => ~binding[b].is_frozen
    /\ (InFlight(b) # {} /\ binding[b].st = "live") => binding[b].is_frozen
    /\ dispatch.stack = <<>> => ~binding[b].is_frozen

\* C27, the handler that does not propagate: a handler run that is stopped
\* by the guard, filtered out by the property name or declined by the
\* transform starts no emission and changes no guard; in particular a
\* suppressed nested run leaves the guard of the outer propagation set.
C27_NoPropagationStep ==
  (/\ dispatch.stack # <<>>
   /\ Len(dispatch'.stack) = Len(dispatch.stack)
   /\ dispatch'.steps = dispatch.steps + 1)
  => /\ binding' = binding
     /\ val' = val

C27_GuardClearAtQuiescence ==
  []C27_GuardClearWhenIdle /\ [][C27_NoPropagationStep]_vars

\* Witness of C27: an external write has completed in which links
\* propagated, transforms declined and nested runs were stopped by the
\* guard; every guard is clear.
C27_Witness ==
  /\ last.op = "set" /\ last.done
  /\ dispatch.stack = <<>>
  /\ last.hops # <<>>
  /\ last.declined > 0
  /\ last.skipped > 0
  /\ \E b \in Links : Bound(b) /\ DecliningTransforms(b)
  /\ \A b \in Links : ~binding[b].is_frozen
\* The innermost emission and the handler it runs next.
TopFrame == dispatch.stack[Len(dispatch.stack)]

HandlerPending ==
  /\ dispatch.stack # <<>>
  /\ TopFrame.i <= Len(TopFrame.hs)

PendingHandler == TopFrame.hs[TopFrame.i]

\* The innermost emission announces a write to a property that link b
\* watches, and the handler to run next is the one b connected for it.
WatchedWritePending(b) ==
  /\ HandlerPending
  /\ binding[b].st = "live"
  /\ PendingHandler.data = b
  /\ \/ /\ PendingHandler.cb = "on_source_notify"
        /\ TopFrame.obj = binding[b].source
        /\ TopFrame.pspec = binding[b].source_property
     \/ /\ PendingHandler.cb = "on_target_notify"
        /\ TopFrame.obj = binding[b].target
        /\ TopFrame.pspec = binding[b].target_property

\* C28, at that moment: the handler of a link that is reached for a write
\* to its watched property while its guard is set returns without a write
\* and without an emission, and leaves the guard set.
C28_SuppressedStep ==
  \A b \in Links :
    (WatchedWritePending(b) /\ binding[b].is_frozen
       /\ dispatch' # dispatch)
    => /\ val' = val
       /\ last'.hops = last.hops
       /\ last'.skipped = last.skipped + 1
       /\ Len(dispatch'.stack) = Len(dispatch.stack)
       /\ binding'[b].is_frozen

\* C28, when the guard is cleared: the return of the link's destination
\* write clears the guard and nothing else; no handler is run again for the
\* writes that were made under the guard.
C28_ClearStep ==
  (/\ dispatch.stack # <<>>
   /\ ~HandlerPending
   /\ TopFrame.caller # 0
   /\ dispatch' # dispatch)
  => /\ val' = val
     /\ last'.hops = last.hops
     /\ dispatch'.stack = SubSeq(dispatch.stack, 1, Len(dispatch.stack) - 1)
     /\ ~binding'[TopFrame.caller].is_frozen

\* C28, afterwards: whenever a link writes, it handles a notification that
\* is not nested inside a destination write of its own: none of its
\* propagations is on the call stack, and it writes the property at the
\* other end.
C28_PropagationStep ==
  (dispatch.stack # <<>> /\ Len(last'.hops) > Len(last.hops))
  => LET hop == last'.hops[Len(last'.hops)]
         b == hop.by
     IN /\ Len(last'.hops) = Len(last.hops) + 1
        /\ WatchedWritePending(b)
        /\ InFlight(b) = {}
        /\ ~binding[b].is_frozen
        /\ IF PendingHandler.cb = "on_source_notify"
           THEN /\ hop.obj = binding[b].target
                /\ hop.prop = binding[b].target_property
           ELSE /\ hop.obj = binding[b].source
                /\ hop.prop = binding[b].source_property

\* C28: a write to a watched property of a link made while the link's guard
\* is set is not propagated by that link, neither when its handler is
\* reached nor after the guard is cleared.
C28_NestedWriteNotPropagated ==
  [][C28_SuppressedStep /\ C28_ClearStep /\ C28_PropagationStep]_vars

\* Witness of C28: an external write to the source of a link with the
\* default transforms has completed; the link propagated it once, a handler
\* of the application then wrote the target inside that propagation, the
\* guard stopped the link's handler for that write, and the two bound
\* properties, of the same type and range, hold different values.
C28_Witness ==
  \E b \in Links :
    /\ Bound(b) /\ Bidirectional(b) /\ DefaultTransforms(b)
    /\ Allocated = 1
    /\ WroteSource(b)
    /\ last.done /\ dispatch.stack = <<>>
    /\ HopsBy(b) = {1} /\ Len(last.hops) = 1
    /\ last.skipped = 2
    /\ \E i \in 1..Len(handlers[binding[b].target]) :
         handlers[binding[b].target][i].cb = "on_app_notify"
    /\ ~binding[b].is_frozen
    /\ SourceValue(b) = last.v
    /\ TargetValue(b) # SourceValue(b)
====
